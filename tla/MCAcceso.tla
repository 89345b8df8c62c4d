------------------------------ MODULE MCAcceso ------------------------------
(* Instances of Acceso for TLC.  Each behaviour chooses at the start which
   operations the clients of the account use, and goes on from a state that a
   creation, a verification and a login leave. *)
EXTENDS Acceso, TLC

Simetria == Permutations(Peticiones) \cup Permutations(Enlaces)

Verificado == [estado |-> "activo", email_verificado |-> TRUE]

\* Renewals and closings of an open session.
ConSesion ==
    /\ abiertas = {"login", "refresh", "logout"}
    /\ usuario = Verificado
    /\ redis = [RedisVacio EXCEPT !.sesion = TtlSesion]
    /\ token = <<TokenNuevo>>
    /\ enlace = [k \in Enlaces |-> [tipo |-> "ninguno", ttl |-> 0]]

\* An account with its first link mailed.
PorVerificar ==
    /\ abiertas = {"cambiar_estado", "perfil", "verificar", "reenviar", "login"}
    /\ usuario = Nuevo
    /\ redis = RedisVacio
    /\ token = <<>>
    /\ \E k \in Enlaces :
         enlace = [j \in Enlaces |-> IF j = k THEN [tipo |-> "correo", ttl |-> TtlEnlace]
                                   ELSE [tipo |-> "ninguno", ttl |-> 0]]

\* Attempts at the password and requests to reset it.
Intentos ==
    /\ abiertas = {"login", "fallo"}
    /\ usuario = Verificado
    /\ redis = RedisVacio
    /\ token = <<>>
    /\ enlace = [k \in Enlaces |-> [tipo |-> "ninguno", ttl |-> 0]]

Olvido ==
    /\ abiertas = {"solicitar", "restablecer", "login"}
    /\ usuario = Verificado
    /\ redis = RedisVacio
    /\ token = <<>>
    /\ enlace = [k \in Enlaces |-> [tipo |-> "ninguno", ttl |-> 0]]

Comienzo(escena) ==
    /\ escena
    /\ fila = Nada
    /\ pet = [w \in Peticiones |-> Libre]
    /\ reloj = 0
    /\ cuenta = CuentaInicial

InitEscenas == Comienzo(ConSesion) \/ Comienzo(PorVerificar) \/ Comienzo(Intentos)
                 \/ Comienzo(Olvido)

SpecEscenas == InitEscenas /\ [][Next]_vars
=============================================================================
