------------------------------- MODULE Acceso -------------------------------
(***************************************************************************)
(* Authentication and the account it acts on: login with its lockout,      *)
(* refresh and logout, the verification of the address, the reset of the   *)
(* password, the profile and the state an administrator sets.              *)
(*                                                                         *)
(* One account.  Its row is in PostgreSQL (READ COMMITTED, written at      *)
(* COMMIT); the session, the marks of used tokens, the links and the       *)
(* counters are keys of Redis with a time to live, written at once.  Every *)
(* action is what a handler does up to its next await on shared state.     *)
(***************************************************************************)
EXTENDS Naturals, Sequences, FiniteSets

CONSTANTS
    Peticiones,     \* requests that can be in progress at the same time
    Enlaces,        \* links that can be mailed
    MaxPeticiones,  \* bound on the requests of a behaviour
    MaxReloj,       \* bound on the units of time
    MaxIntentos,    \* LOGIN_LOCKOUT_MAX_INTENTOS
    TtlBloqueo,     \* LOGIN_LOCKOUT_TTL
    TtlSesion,      \* INACTIVIDAD_TIMEOUT_MINUTOS
    TtlMarca,       \* TOKEN_BLACKLIST_TTL
    VidaRefresh,    \* JWT_REFRESH_TOKEN_EXPIRE_DAYS
    TtlEnlace,      \* EMAIL_VERIFICATION_TTL, PASSWORD_RESET_TTL
    TtlPausa,       \* EMAIL_REENVIO_RATE_TTL
    Nada

Estados == {"pendiente_verificacion", "activo", "suspendido", "inactivo"}

Fila == [estado : Estados, email_verificado : BOOLEAN]

ASSUME ConstantesAcceso ==
    /\ MaxPeticiones \in Nat /\ MaxReloj \in Nat
    /\ MaxIntentos \in Nat \ {0}
    /\ \A n \in {TtlBloqueo, TtlSesion, TtlMarca, VidaRefresh, TtlEnlace, TtlPausa} :
         n \in Nat \ {0}
    /\ Nada \notin Peticiones \cup Enlaces \cup Estados \cup Nat \cup Fila
    /\ IsFiniteSet(Peticiones)

VARIABLES
    abiertas, \* the operations clients use in this behaviour
    usuario,  \* the committed row of the account
    fila,     \* the request whose transaction holds the lock of the row
    redis,    \* sesion, intentos, bloqueo and pausa: time left of each key
    token,    \* the refresh tokens issued: life left of each and of its mark
    enlace,   \* enlace[k]: a mailed link
    pet,      \* pet[w]: the request being served
    reloj,
    cuenta    \* what the properties count; no action reads it but hechas

vars == <<abiertas, usuario, fila, redis, token, enlace, pet, reloj, cuenta>>

OperacionesAuth == {"login", "fallo", "refresh", "logout", "verificar", "reenviar",
                    "solicitar", "restablecer"}
OperacionesUsuarios == {"cambiar_estado", "perfil"}
Operaciones == OperacionesAuth \cup OperacionesUsuarios

Redis == [sesion : 0..TtlSesion, bloqueo : 0..TtlBloqueo,
          intentos : Nat, ventana : 0..TtlBloqueo,   \* counter and its expiration
          pausa : [{"correo", "clave"} -> 0..TtlPausa]]

Token == [vida : 0..VidaRefresh, marca : 0..TtlMarca,
          gastado : BOOLEAN, hace : 0..TtlMarca]     \* last time it was accepted

Enlace == [tipo : {"correo", "clave", "ninguno"}, ttl : 0..TtlEnlace]

Pasos == {"libre", "mirar", "leer", "comparar", "bloquear", "reponer", "recargar",
          "actualizar", "abrir", "commit", "reclamar", "existe", "renovar", "revocar",
          "cerrar", "enlace", "borrar", "pausa", "crear", "anotar"}

Peticion == [op : Operaciones, paso : Pasos,
             ref : Enlaces \cup Nat,  \* the link or token it brings
             nuevo : Estados \cup {Nada},            \* the state asked for
             leido : Fila \cup {Nada},               \* the entity in memory
             campos : SUBSET {"estado", "email_verificado"},  \* columns to UPDATE
             rancio : BOOLEAN]         \* another request committed since it read

Libre == [op |-> "login", paso |-> "libre", ref |-> 0, nuevo |-> Nada,
          leido |-> Nada, campos |-> {}, rancio |-> FALSE]

TransicionesValidas ==
    {<<"activo", "suspendido">>, <<"activo", "inactivo">>,
     <<"suspendido", "activo">>, <<"suspendido", "inactivo">>,
     <<"inactivo", "activo">>,
     <<"pendiente_verificacion", "activo">>, <<"pendiente_verificacion", "inactivo">>}

\* crear_usuario: an account is born without a verified address.
Nuevo == [estado |-> "pendiente_verificacion", email_verificado |-> FALSE]

Activar(u) == [u EXCEPT !.estado = "activo", !.email_verificado = TRUE]

CambiarEstado(u, e) == IF e = "activo" THEN Activar(u) ELSE [u EXCEPT !.estado = e]

\* The entity a request writes back: what it read, changed by its operation.  The
\* names and the password of a profile are not in this model.
Entidad(w) ==
    CASE pet[w].op = "verificar" -> Activar(pet[w].leido)
      [] pet[w].op = "cambiar_estado" -> CambiarEstado(pet[w].leido, pet[w].nuevo)
      [] OTHER -> pet[w].leido

RedisVacio == [sesion |-> 0, bloqueo |-> 0, intentos |-> 0, ventana |-> 0,
               pausa |-> [c \in {"correo", "clave"} |-> 0]]

CuentaInicial == [hechas |-> 0, fallos |-> 0, caidas |-> 0, olvidados |-> 0,
                  cierre |-> FALSE, usados |-> {}]

TokenNuevo == [vida |-> VidaRefresh, marca |-> 0, gastado |-> FALSE, hace |-> 0]

TokenVacio == [TokenNuevo EXCEPT !.vida = 0]

Init ==
    /\ abiertas = Operaciones
    /\ usuario = Nuevo
    /\ fila = Nada
    /\ redis = RedisVacio
    /\ token = <<>>
    /\ enlace = [k \in Enlaces |-> [tipo |-> "ninguno", ttl |-> 0]]
    /\ pet = [w \in Peticiones |-> Libre]
    /\ reloj = 0
    /\ cuenta = CuentaInicial

----------------------------------------------------------------------------
Pasa(w, p) == pet' = [pet EXCEPT ![w].paso = p]
Termina(w) == pet' = [pet EXCEPT ![w] = Libre]
\* The request goes on to p if its condition holds; otherwise it is refused.
PasaSi(w, c, p) == IF c THEN Pasa(w, p) ELSE Termina(w)

En(w, p) == pet[w].paso = p
SinFila == UNCHANGED <<abiertas, usuario, fila, reloj>>
SoloPet == SinFila /\ UNCHANGED <<redis, token, enlace, cuenta>>

Inicio(op) == CASE op \in {"login", "fallo"} -> "mirar"
                [] op = "refresh" -> "reclamar"
                [] op = "logout" -> "revocar"
                [] op \in {"verificar", "restablecer"} -> "enlace"
                [] op = "solicitar" -> "pausa"
                [] OTHER -> "leer"

\* A request arrives; "fallo" is a login with a wrong password.
Empezar(w, op) ==
    /\ En(w, "libre") /\ op \in abiertas /\ cuenta.hechas < MaxPeticiones
    /\ \E r \in CASE op \in {"refresh", "logout"} -> DOMAIN token
                  [] op \in {"verificar", "restablecer"} -> Enlaces
                  [] OTHER -> {0} :
       \E e \in IF op = "cambiar_estado" THEN Estados ELSE {Nada} :
          pet' = [pet EXCEPT ![w] = [Libre EXCEPT !.op = op, !.paso = Inicio(op),
                                                  !.ref = r, !.nuevo = e]]
    /\ cuenta' = [cuenta EXCEPT !.hechas = @ + 1]
    /\ SinFila /\ UNCHANGED <<redis, token, enlace>>

MirarBloqueo(w) ==
    /\ En(w, "mirar")
    /\ PasaSi(w, redis.bloqueo = 0, "leer")
    /\ SoloPet

PuedeAutenticarse(u) == u.estado = "activo"
PuedeRefrescar(u) == u.estado = "activo"
\* The new hash of a reset is a coroutine nobody awaits: its UPDATE fails.
PuedeRestablecer(u) == FALSE

\* Mutant: an administrator may set any state.
AdmiteTodo(w, u) == CASE pet[w].op \in {"login", "fallo"} -> PuedeAutenticarse(u)
                      [] pet[w].op = "refresh" -> PuedeRefrescar(u)
                      [] pet[w].op = "reenviar" -> ~u.email_verificado
                      [] pet[w].op = "restablecer" -> PuedeRestablecer(u)
                      [] OTHER -> TRUE

\* What a request needs of the account it reads.
Admite(w, u) == CASE pet[w].op \in {"login", "fallo"} -> PuedeAutenticarse(u)
                  [] pet[w].op = "refresh" -> PuedeRefrescar(u)
                  [] pet[w].op = "cambiar_estado" ->
                       <<u.estado, pet[w].nuevo>> \in TransicionesValidas
                  [] pet[w].op = "reenviar" -> ~u.email_verificado
                  [] pet[w].op = "restablecer" -> PuedeRestablecer(u)
                  [] OTHER -> TRUE

TrasLeer(w) == CASE pet[w].op \in {"login", "fallo"} -> "comparar"
                 [] pet[w].op = "reenviar" -> "pausa"
                 [] pet[w].op = "solicitar" -> "crear"
                 [] OTHER -> "recargar"

Leer(w) ==
    /\ En(w, "leer") /\ pet[w].op # "refresh"
    /\ IF Admite(w, usuario)
       THEN pet' = [pet EXCEPT ![w].paso = TrasLeer(w), ![w].leido = usuario,
                               ![w].rancio = FALSE]
       ELSE Termina(w)
    /\ SoloPet

\* The end of a refresh: the account may log in and gets a new token.
Refrescar(w) ==
    /\ En(w, "leer") /\ pet[w].op = "refresh"
    /\ token' = IF Admite(w, usuario) THEN Append(token, TokenNuevo) ELSE token
    /\ Termina(w)
    /\ SinFila /\ UNCHANGED <<redis, enlace, cuenta>>

\* Mutant: the lockout starts one attempt too late.
CompararDeMas(w) ==
    /\ En(w, "comparar") /\ SinFila /\ UNCHANGED <<token, enlace>>
    /\ IF pet[w].op = "login"
       THEN /\ redis' = [redis EXCEPT !.intentos = 0, !.ventana = 0]
            /\ cuenta' = [cuenta EXCEPT !.fallos = 0]
            /\ Pasa(w, "recargar")
       ELSE /\ redis' = [redis EXCEPT !.intentos = @ + 1,
                            !.ventana = IF @ = 0 THEN TtlBloqueo ELSE @]
            /\ cuenta' = [cuenta EXCEPT !.fallos = @ + 1]
            /\ PasaSi(w, redis'.intentos > MaxIntentos, "bloquear")

\* A good password deletes the counter of failures; a bad one increments it, with
\* SET NX fixing its expiration at the first.
Comparar(w) ==
    /\ En(w, "comparar") /\ SinFila /\ UNCHANGED <<token, enlace>>
    /\ IF pet[w].op = "login"
       THEN /\ redis' = [redis EXCEPT !.intentos = 0, !.ventana = 0]
            /\ cuenta' = [cuenta EXCEPT !.fallos = 0]
            /\ Pasa(w, "recargar")
       ELSE /\ redis' = [redis EXCEPT !.intentos = @ + 1,
                            !.ventana = IF @ = 0 THEN TtlBloqueo ELSE @]
            /\ cuenta' = [cuenta EXCEPT !.fallos = @ + 1]
            /\ PasaSi(w, redis'.intentos >= MaxIntentos, "bloquear")

\* The lock, and then the deletion of the counter: of the failures of others too, if
\* it comes when the lock has expired.
Bloquear(w) ==
    /\ \/ /\ En(w, "bloquear") /\ Pasa(w, "reponer")
          /\ redis' = [redis EXCEPT !.bloqueo = TtlBloqueo]
          /\ UNCHANGED cuenta
       \/ /\ En(w, "reponer") /\ Termina(w)
          /\ redis' = [redis EXCEPT !.intentos = 0, !.ventana = 0]
          /\ cuenta' = IF redis.bloqueo = 0
                       THEN [cuenta EXCEPT !.olvidados = @ + redis.intentos] ELSE cuenta
    /\ SinFila /\ UNCHANGED <<token, enlace>>

\* actualizar SELECTs the row again and sets every attribute of the entity on it:
\* only those that differ from this second read go in the UPDATE.
Recargar(w) ==
    /\ En(w, "recargar")
    /\ pet' = [pet EXCEPT ![w].paso = "actualizar",
                 ![w].campos = {c \in DOMAIN usuario : Entidad(w)[c] # usuario[c]}]
    /\ SoloPet

Actualizar(w) ==
    /\ En(w, "actualizar") /\ fila = Nada
    /\ fila' = w
    /\ Pasa(w, CASE pet[w].op = "login" -> "abrir"
                 [] pet[w].op = "verificar" -> "borrar"
                 [] OTHER -> "commit")
    /\ UNCHANGED <<abiertas, usuario, redis, token, enlace, reloj, cuenta>>

\* login: cache.set of the session, before COMMIT.
Abrir(w) ==
    /\ En(w, "abrir")
    /\ redis' = [redis EXCEPT !.sesion = TtlSesion]
    /\ cuenta' = [cuenta EXCEPT !.cierre = FALSE]
    /\ Pasa(w, "commit")
    /\ SinFila /\ UNCHANGED <<token, enlace>>

\* Mutant: the link survives its use.
BorrarNada(w) ==
    /\ En(w, "borrar")
    /\ Pasa(w, "commit")
    /\ SoloPet

\* "Eliminar después de uso", before COMMIT.
Borrar(w) ==
    /\ En(w, "borrar")
    /\ enlace' = [enlace EXCEPT ![pet[w].ref].ttl = 0]
    /\ Pasa(w, "commit")
    /\ SinFila /\ UNCHANGED <<redis, token, cuenta>>

Escrita(w) == [c \in DOMAIN usuario |->
                 IF c \in pet[w].campos THEN Entidad(w)[c] ELSE usuario[c]]

\* COMMIT and answer.  The others may now hold an entity that is out of date.
Commit(w) ==
    /\ En(w, "commit")
    /\ usuario' = Escrita(w)
    /\ fila' = Nada
    /\ pet' = [v \in Peticiones |->
                 IF v = w THEN Libre
                 ELSE [pet[v] EXCEPT !.rancio = @ \/ pet[v].leido # Nada]]
    /\ token' = IF pet[w].op = "login" THEN Append(token, TokenNuevo) ELSE token
    /\ cuenta' = IF pet[w].op = "verificar"
                 THEN [cuenta EXCEPT !.usados = @ \cup {pet[w].ref}] ELSE cuenta
    /\ UNCHANGED <<abiertas, redis, enlace, reloj>>

Aceptable(t) == token[t].vida > 0 /\ token[t].marca = 0

Aceptado(t) == [token EXCEPT ![t].marca = TtlMarca, ![t].gastado = TRUE, ![t].hace = 0]

\* Mutant: the token is marked but an existing mark does not stop it.
ReclamarSinNX(w) ==
    /\ En(w, "reclamar")
    /\ token' = IF token[pet[w].ref].vida > 0 THEN Aceptado(pet[w].ref) ELSE token
    /\ PasaSi(w, token[pet[w].ref].vida > 0, "existe")
    /\ SinFila /\ UNCHANGED <<redis, enlace, cuenta>>

\* set_nx of the mark: only one request at a time can use up the token.
Reclamar(w) ==
    /\ En(w, "reclamar")
    /\ token' = IF Aceptable(pet[w].ref) THEN Aceptado(pet[w].ref) ELSE token
    /\ PasaSi(w, Aceptable(pet[w].ref), "existe")
    /\ SinFila /\ UNCHANGED <<redis, enlace, cuenta>>

\* Mutant: the refresh does not ask whether the session exists.
ExisteSiempre(w) ==
    /\ En(w, "existe")
    /\ Pasa(w, "renovar")
    /\ SoloPet

Existe(w) ==
    /\ En(w, "existe")
    /\ PasaSi(w, redis.sesion > 0, "renovar")
    /\ SoloPet

Renovar(w) ==
    /\ En(w, "renovar")
    /\ redis' = [redis EXCEPT !.sesion = TtlSesion]
    /\ Pasa(w, "leer")
    /\ SinFila /\ UNCHANGED <<token, enlace, cuenta>>

\* logout: the mark (with SET, over another) and then the session.  A token that
\* expired is ignored.
Revocar(w) ==
    /\ En(w, "revocar")
    /\ token' = IF token[pet[w].ref].vida > 0
                THEN [token EXCEPT ![pet[w].ref].marca = TtlMarca] ELSE token
    /\ PasaSi(w, token[pet[w].ref].vida > 0, "cerrar")
    /\ SinFila /\ UNCHANGED <<redis, enlace, cuenta>>

Cerrar(w) ==
    /\ En(w, "cerrar")
    /\ redis' = [redis EXCEPT !.sesion = 0]
    /\ cuenta' = [cuenta EXCEPT !.cierre = \A v \in Peticiones : ~En(v, "renovar")]
    /\ Termina(w)
    /\ SinFila /\ UNCHANGED <<token, enlace>>

Correo(w) == IF pet[w].op \in {"reenviar", "verificar"} THEN "correo" ELSE "clave"

UsarEnlace(w) ==
    /\ En(w, "enlace")
    /\ PasaSi(w, enlace[pet[w].ref].tipo = Correo(w) /\ enlace[pet[w].ref].ttl > 0, "leer")
    /\ SoloPet

\* One mail per TtlPausa.  A resend looks in the background, after its answer.
MirarPausa(w) ==
    /\ En(w, "pausa")
    /\ PasaSi(w, redis.pausa[Correo(w)] = 0,
              IF pet[w].op = "reenviar" THEN "crear" ELSE "leer")
    /\ SoloPet

CrearEnlace(w) ==
    /\ En(w, "crear")
    /\ \E k \in Enlaces :
         /\ enlace[k].tipo = "ninguno"
         /\ enlace' = [enlace EXCEPT ![k] = [tipo |-> Correo(w), ttl |-> TtlEnlace]]
    /\ Pasa(w, "anotar")
    /\ SinFila /\ UNCHANGED <<redis, token, cuenta>>

AnotarPausa(w) ==
    /\ En(w, "anotar")
    /\ redis' = [redis EXCEPT !.pausa[Correo(w)] = TtlPausa]
    /\ Termina(w)
    /\ SinFila /\ UNCHANGED <<token, enlace, cuenta>>

\* Mutant: nothing rolls back the transaction of a request that dies.
CaerConFila(w) ==
    /\ ~En(w, "libre")
    /\ Termina(w)
    /\ cuenta' = IF En(w, "bloquear") THEN [cuenta EXCEPT !.caidas = @ + 1] ELSE cuenta
    /\ UNCHANGED <<abiertas, usuario, fila, redis, token, enlace, reloj>>

\* The request dies, or a call to Redis or PostgreSQL fails: the transaction rolls
\* back, what Redis was told stays.
Caer(w) ==
    /\ ~En(w, "libre")
    /\ Termina(w)
    /\ fila' = IF fila = w THEN Nada ELSE fila
    /\ cuenta' = IF En(w, "bloquear") THEN [cuenta EXCEPT !.caidas = @ + 1] ELSE cuenta
    /\ UNCHANGED <<abiertas, usuario, redis, token, enlace, reloj>>

Menos(n) == IF n = 0 THEN 0 ELSE n - 1

\* A unit of time: every key of Redis and every token has one less to live.
Tic ==
    /\ reloj < MaxReloj
    /\ reloj' = reloj + 1
    /\ redis' = [sesion |-> Menos(redis.sesion), bloqueo |-> Menos(redis.bloqueo),
                 ventana |-> Menos(redis.ventana),
                 intentos |-> IF redis.ventana = 1 THEN 0 ELSE redis.intentos,
                 pausa |-> [c \in DOMAIN redis.pausa |-> Menos(redis.pausa[c])]]
    /\ token' = [t \in DOMAIN token |->
                   [token[t] EXCEPT !.vida = Menos(@), !.marca = Menos(@),
                                    !.hace = IF @ < TtlMarca THEN @ + 1 ELSE @]]
    /\ enlace' = [k \in Enlaces |-> [enlace[k] EXCEPT !.ttl = Menos(@)]]
    /\ cuenta' = IF redis.ventana = 1 \/ redis.bloqueo = 1
                 THEN [cuenta EXCEPT !.fallos = 0] ELSE cuenta
    /\ UNCHANGED <<abiertas, usuario, fila, pet>>

Next ==
    \/ \E w \in Peticiones :
         \/ \E op \in Operaciones : Empezar(w, op)
         \/ MirarBloqueo(w) \/ Leer(w) \/ Refrescar(w) \/ Comparar(w) \/ Bloquear(w)
         \/ Recargar(w) \/ Actualizar(w) \/ Abrir(w) \/ Borrar(w) \/ Commit(w)
         \/ Reclamar(w) \/ Existe(w) \/ Renovar(w) \/ Revocar(w) \/ Cerrar(w)
         \/ UsarEnlace(w) \/ MirarPausa(w) \/ CrearEnlace(w) \/ AnotarPausa(w)
         \/ Caer(w)
    \/ Tic

Spec == Init /\ [][Next]_vars

----------------------------------------------------------------------------
(* Properties *)

TypeOK ==
    /\ abiertas \subseteq Operaciones
    /\ usuario \in Fila
    /\ fila \in Peticiones \cup {Nada}
    /\ redis \in Redis
    /\ token \in Seq(Token)
    /\ enlace \in [Enlaces -> Enlace]
    /\ pet \in [Peticiones -> Peticion]
    /\ reloj \in 0..MaxReloj
    /\ fila # Nada => pet[fila].paso \in {"abrir", "borrar", "commit"}

\* "Token ya utilizado o revocado" holds for a day: nobody gets in again with a used
\* token, or with one a logout revoked, before TOKEN_BLACKLIST_TTL has passed.
ReusoSoloTrasMarca ==
    [][\A w \in Peticiones :
         pet[w].paso = "reclamar" /\ pet'[w].paso = "existe" =>
           LET t == token[pet[w].ref]
           IN  t.marca = 0 /\ (t.gastado => t.hace = TtlMarca)]_vars

\* A logout that no refresh straddles ends the session until the next login, with
\* whatever tokens the client still holds.
CierreFirme == cuenta.cierre => redis.sesion = 0

\* Without an overlapping write the state of the account changes only by the rules:
\* a login or a profile leaves it, an administrator follows the transitions.
EscrituraLimpia ==
    [][\A w \in Peticiones :
         pet[w].paso = "commit" /\ fila' = Nada /\ fila = w /\ pet'[w] = Libre
           /\ ~pet[w].rancio
         => CASE pet[w].op = "cambiar_estado" ->
                   usuario'.estado = usuario.estado
                   \/ <<usuario.estado, usuario'.estado>> \in TransicionesValidas
              [] pet[w].op = "verificar" ->
                   usuario' = usuario \/ usuario' = Activar(usuario)
              [] OTHER -> usuario' = usuario]_vars

\* After an account is verified with a link, no later request gets in with it.
EnlaceDeUnUso ==
    [][\A w \in Peticiones :
         pet[w].paso = "enlace" /\ pet'[w].paso = "leer"
           => pet[w].ref \notin cuenta.usados]_vars

\* However the attempts overlap, an account is locked after MaxIntentos failures
\* and at most one more for each other request already past the check, for each one
\* that died between counting and locking, and for each failure that a request which
\* took the whole of a lockout to reset the counter deleted with it.
BloqueoAcotado ==
    cuenta.fallos < MaxIntentos + Cardinality(Peticiones) + cuenta.caidas
                      + cuenta.olvidados
=============================================================================
