----------------------------- MODULE MCRegistros -----------------------------
(* Instances of Registros for TLC: each behaviour chooses at the start which
   operations are in use, and the accounts of the day there already are. *)
EXTENDS Registros, TLC

Simetria == Permutations(Peticiones) \cup Permutations(Nombres)
              \cup Permutations(Organizaciones)

Comienzo(ops, n, o) ==
    /\ abiertas = ops /\ hoy = 1
    /\ claves = Primeras(n) /\ duena = [k \in Primeras(n) |-> o]
    /\ filas = [t \in Tablas |-> Cero]
    /\ puestas = [w \in Peticiones |-> {}]
    /\ bloqueo = [t \in Tablas |-> Nada] /\ cerrojo = Nada
    /\ pet = [w \in Peticiones |-> Libre]
    /\ asentadas = {} /\ bitacora = {}

InitEscenas ==
    \/ \E n \in 0..MaxCuentas, o \in Organizaciones \cup {Nada} : Comienzo({"cuenta"}, n, o)
    \/ \E op \in {"vehiculo", "rol", "notificar", "ampliar", "aprobar", "editar"} :
         Comienzo({op}, 0, Nada)
    \/ Comienzo({"usuario", "superadmin"}, 0, Nada)
    \/ Comienzo({"cierre", "insumo", "catalogo", "inspeccion", "sesion", "registro"}, 0, Nada)
SpecEscenas == InitEscenas /\ [][Next]_vars
=============================================================================
