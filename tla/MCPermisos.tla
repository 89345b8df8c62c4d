----------------------------- MODULE MCPermisos -----------------------------
(* Instances of Permisos for TLC: each behaviour chooses at the start which
   operations are in use, on a role with one permission or with none. *)
EXTENDS Permisos

Uno == CHOOSE r \in Roles : TRUE
Alguno == CHOOSE c \in Claves : TRUE
SoloUno == [r \in Roles |-> IF r = Uno THEN {Alguno} ELSE {}]

\* Requests of the user while an administrator revokes its roles.
Revocaciones ==
    /\ abiertas = {"usar", "revocar"}
    /\ base = [vigencia |-> [r \in Roles |-> Siempre], permisos |-> SoloUno, activo |-> TRUE]

\* One role of the user expires and the permissions of the others stay.
Vencimientos ==
    /\ abiertas = {"usar"}
    /\ base = [vigencia |-> [r \in Roles |-> IF r = Uno THEN MaxVigencia ELSE Siempre],
               permisos |-> [r \in Roles |-> IF r = Uno THEN {Alguno} ELSE Claves \ {Alguno}],
               activo |-> TRUE]

Asignaciones ==
    /\ abiertas = {"asignar", "revocar", "login"}
    /\ base = [vigencia |-> [r \in Roles |-> Siempre], permisos |-> SoloUno, activo |-> TRUE]

\* Requests of the user while its state changes.
Suspensiones ==
    /\ abiertas = {"usar", "estado", "login"}
    /\ base = [vigencia |-> [r \in Roles |-> Siempre], permisos |-> SoloUno, activo |-> TRUE]

\* Permissions that administrators add to a role.
Ampliaciones ==
    /\ abiertas = {"ampliar"}
    /\ base = [vigencia |-> [r \in Roles |-> Siempre],
               permisos |-> [r \in Roles |-> {}], activo |-> TRUE]

\* A key that expires, of a user that may be suspended.
Llaves ==
    /\ abiertas = {"usar_llave", "revocar_llave", "estado"}
    /\ base = [vigencia |-> [r \in Roles |-> Siempre], permisos |-> SoloUno, activo |-> TRUE]

\* The user creates a key when a role of its own is about to expire.
Creaciones ==
    /\ abiertas = {"crear_llave"}
    /\ base = [vigencia |-> [r \in Roles |-> IF r = Uno THEN MaxVigencia ELSE Siempre],
               permisos |-> SoloUno, activo |-> TRUE]

Comienzo ==
    /\ fila = [f \in Filas |-> Nada]
    /\ redis = RedisVacio
    /\ memoria = [h \in Procesos |-> [permisos |-> {}, vida |-> 0]]
    /\ llave \in IF "usar_llave" \notin abiertas THEN {SinLlave}
                 ELSE {LlaveNueva({Alguno}, v) : v \in {Siempre, MaxVigencia}}
    /\ pet = [w \in Peticiones |-> Libre(CHOOSE h \in Procesos : TRUE)]
    /\ sin = [c \in Claves |-> IF c \in Tiene(base) THEN 0 ELSE CotaPermiso + 1]
    /\ inactivo = 0

InitEscenas ==
    /\ Revocaciones \/ Vencimientos \/ Asignaciones \/ Suspensiones \/ Ampliaciones
       \/ Llaves \/ Creaciones
    /\ Comienzo
SpecEscenas == InitEscenas /\ [][Next]_vars /\ Equidad

InitRevocaciones == (Revocaciones \/ Vencimientos) /\ Comienzo
SpecRevocaciones == InitRevocaciones /\ [][Next]_vars /\ Equidad
=============================================================================
