------------------------------ MODULE Registros ------------------------------
(***************************************************************************)
(* The requests that write one row: the creation of accounts, vehicles,    *)
(* users, roles, supplies, organismos, closings, inspections, NUNC         *)
(* sessions and their records, the acknowledgement of a notification, the  *)
(* changes of a vehicle, an inspection or a range, and the script that     *)
(* creates the first superadmin.  Their uniqueness rests on the indexes of *)
(* PostgreSQL, their numbers on the triggers, and each request leaves a    *)
(* row in the audit log once it is answered.                               *)
(*                                                                         *)
(* Every request runs once.  A unique key is a tuple: the index it belongs *)
(* to and the value; the keys of an open transaction are in puestas.  The  *)
(* indexes are of the whole database, while a request that comes with an   *)
(* organization looks for its key among the rows of that organization.     *)
(***************************************************************************)
EXTENDS Naturals, FiniteSets, FiniteSetsExt

CONSTANTS
    Peticiones,
    Nombres,   \* plates, names of roles, cranes, requests of registration
    Organizaciones, \* the tenants; none if multi-tenancy is off, as it is by default
    Politicas, \* whether the role of the application is subject to row level security
    MaxDia,    \* bound on the midnights that pass
    MaxValor,  \* bound on the end of a range
    Base, Tope,\* LPAD keeps the numbers below Tope and the first digits of the others
    MaxCuentas,\* bound on the accounts of a day at the start
    Nada

ASSUME ConstantesRegistros ==
    /\ \A n \in {MaxDia, MaxValor, Base, Tope} : n \in Nat \ {0}
    /\ 1 < Base /\ Base <= Tope /\ MaxCuentas \in Nat /\ MaxCuentas < Tope
    /\ Nombres # {} /\ Politicas \in BOOLEAN
    /\ Nada \notin Nat \cup Nombres \cup Organizaciones \cup Peticiones

VARIABLES
    abiertas,  \* the operations of this behaviour
    hoy,       \* the day of the clock of PostgreSQL
    claves,    \* committed unique keys
    duena,     \* duena[k]: the organization of the row with the key k
    filas,     \* committed rows that are edited
    puestas,   \* puestas[w]: the keys that the transaction of w has inserted
    bloqueo,   \* the request whose transaction locks each row
    cerrojo,   \* and the one that holds pg_advisory_xact_lock(987654321)
    pet,       \* pet[w]: the request
    asentadas, \* requests whose transaction has committed a change
    bitacora   \* rows of the audit log

vars == <<abiertas, hoy, claves, duena, filas, puestas, bloqueo, cerrojo, pet,
          asentadas, bitacora>>

Creaciones == {"cuenta", "vehiculo", "rol", "notificar", "cierre", "insumo",
               "inspeccion", "sesion", "registro", "usuario", "superadmin", "catalogo"}
Ediciones == {"ampliar", "editar", "aprobar"}
Operaciones == Creaciones \cup Ediciones

Fila(op) == CASE op = "ampliar" -> "rango" [] op = "editar" -> "vehiculo"
              [] op = "notificar" -> "notificacion" [] OTHER -> "inspeccion"
Tablas == {"rango", "vehiculo", "inspeccion", "notificacion"}

Campos == {"a", "b"}
Valores == 0..MaxValor
Edicion == [Campos -> {0, 1, Nada}] \* two values tell a change from what was there
Cero == [c \in Campos |-> 0]

Pasos == {"libre", "leer", "releer", "numerar", "insertar", "modificar", "commit",
          "anotar", "fin"}

Libre == [op |-> "insumo", paso |-> "libre", dato |-> Nada, org |-> Nada, exacto |-> TRUE, dia |-> 0,
          numero |-> 0, pide |-> [c \in Campos |-> Nada], leida |-> Cero, copia |-> Cero,
          resultado |-> Nada, choque |-> {}, rancio |-> FALSE]

\* accounts of the day that were there at the start
Primeras(n) == {<<"numero", 1, k>> : k \in 1..n}

Init ==
    /\ abiertas = Operaciones /\ hoy = 1
    /\ \E n \in 0..MaxCuentas, o \in Organizaciones \cup {Nada} :
         claves = Primeras(n) /\ duena = [k \in Primeras(n) |-> o]
    /\ filas = [t \in Tablas |-> Cero]
    /\ puestas = [w \in Peticiones |-> {}]
    /\ bloqueo = [t \in Tablas |-> Nada] /\ cerrojo = Nada
    /\ pet = [w \in Peticiones |-> Libre]
    /\ asentadas = {} /\ bitacora = {}

----------------------------------------------------------------------------
En(w, p) == pet[w].paso = p
Ops(w, ops) == pet[w].op \in ops
Pasa(w, p) == pet' = [pet EXCEPT ![w].paso = p]

SoloPet == UNCHANGED <<abiertas, hoy, claves, duena, filas, puestas, bloqueo, cerrojo,
                       asentadas, bitacora>>

\* What is left of a request that has ended.
Acabada(p, r, ks) == [Libre EXCEPT !.op = p.op, !.paso = "fin", !.exacto = p.exacto,
                                  !.org = p.org, !.resultado = r, !.choque = ks,
                                  !.rancio = p.rancio /\ ks # {}]

\* An HTTPException: the transaction ends without a change and the answer is audited.
Rechaza(w) == pet' = [pet EXCEPT ![w].paso = "anotar", ![w].resultado = "fallido"]

Lee(w, p) == pet' = [pet EXCEPT ![w].paso = p, ![w].rancio = FALSE]

\* The body of the request: a new value for some fields of the row.
Cuerpo(op) ==
    CASE op = "ampliar" -> {p \in [Campos -> Valores \cup {Nada}] : p["a"] # Nada /\ p["b"] = Nada}
      [] op = "aprobar" -> {p \in Edicion : p["a"] # Nada}
      [] op = "editar"  -> Edicion
      [] OTHER -> {Libre.pide}

\* The requests that name what they create, and those that look for it in their
\* organization.
ConNombre == {"cuenta", "vehiculo", "rol", "notificar", "cierre", "usuario", "superadmin"}
DeInquilino == {"cuenta", "vehiculo", "usuario"}

Empezar(w, op) ==
    /\ En(w, "libre") /\ op \in abiertas
    /\ \E d \in IF op \in ConNombre THEN Nombres ELSE {Nada},
          o \in IF op \in DeInquilino THEN Organizaciones \cup {Nada} ELSE {Nada},
          e \in IF op = "rol" THEN BOOLEAN ELSE {TRUE}, p \in Cuerpo(op) :
         pet' = [pet EXCEPT ![w] = [Libre EXCEPT
                   !.op = op, !.dato = d, !.org = o, !.exacto = e, !.pide = p, !.dia = hoy,
                   !.paso = IF op \in {"cierre", "insumo", "catalogo"} THEN "insertar"
                            ELSE "leer"]]
    /\ SoloPet

----------------------------------------------------------------------------
(* What each operation reads first *)

\* Mutant: the creation does not look for the plate.
LeerCuentaSinConsulta(w) == Ops(w, {"cuenta"}) /\ Lee(w, "numerar")

\* existe_placa: in the organization of the request if it has one, everywhere otherwise.
Existe(w, k) == k \in claves /\ pet[w].org \in {Nada, duena[k]}

LeerCuenta(w) ==
    /\ Ops(w, {"cuenta"})
    /\ IF Existe(w, <<"cuenta", pet[w].dato>>) THEN Rechaza(w) ELSE Lee(w, "numerar")

LeerVehiculo(w) ==
    /\ Ops(w, {"vehiculo"})
    /\ IF Existe(w, <<"vehiculo", pet[w].dato>>) THEN Rechaza(w) ELSE Lee(w, "insertar")

\* A name that came with spaces around is looked for as it came, and stored without.
LeerRol(w) ==
    /\ Ops(w, {"rol"})
    /\ IF pet[w].exacto /\ <<"rol", pet[w].dato>> \in claves
       THEN Rechaza(w) ELSE Lee(w, "insertar")

\* The use case looks for the e-mail, with no filter but the policy of the table, and for
\* the role "usuario", a seed.
LeerUsuario(w) ==
    /\ Ops(w, {"usuario"})
    /\ LET k == <<"usuario", pet[w].dato>>
       IN  IF Existe(w, k) \/ (~Politicas /\ k \in claves)
           THEN Rechaza(w) ELSE Lee(w, "insertar")

\* The script looks for them in a connection of its own and then exits, unaudited.
LeerSuperadmin(w) ==
    /\ Ops(w, {"superadmin"})
    /\ IF <<"usuario", pet[w].dato>> \in claves
       THEN pet' = [pet EXCEPT ![w] = Acabada(@, "fallido", {})] ELSE Lee(w, "insertar")

LeerNotificacion(w) ==
    /\ Ops(w, {"notificar"})
    /\ Lee(w, IF <<"notificar", pet[w].dato>> \in claves THEN "modificar" ELSE "insertar")

\* The vehicle of an inspection, whose documents are copied into it.
LeerInspeccion(w) == Ops(w, {"inspeccion"}) /\ Lee(w, "insertar")

LeerFila(w) ==
    /\ Ops(w, {"editar", "aprobar"})
    /\ pet' = [pet EXCEPT ![w].paso = "releer", ![w].rancio = FALSE,
                          ![w].leida = filas[Fila(pet[w].op)]]

\* Mutant: the new end is not compared with the one that was read.
LeerRangoSinComparar(w) ==
    /\ Ops(w, {"ampliar"})
    /\ LET f == filas["rango"]
       IN  pet' = [pet EXCEPT ![w].paso = "modificar", ![w].rancio = FALSE,
                              ![w].leida = f, ![w].copia = f]

\* The new end of a range has to be beyond the one that was read.  The rows of the
\* ranges are put by hand.
LeerRango(w) ==
    /\ Ops(w, {"ampliar"})
    /\ LET f == filas["rango"]
       IN  IF pet[w].pide["a"] > f["a"]
           THEN pet' = [pet EXCEPT ![w].paso = "modificar", ![w].rancio = FALSE,
                                   ![w].leida = f, ![w].copia = f]
           ELSE Rechaza(w)

Leer(w) ==
    /\ En(w, "leer")
    /\ \/ LeerCuenta(w) \/ LeerVehiculo(w) \/ LeerRol(w) \/ LeerNotificacion(w)
       \/ LeerUsuario(w) \/ LeerSuperadmin(w)
       \/ LeerInspeccion(w) \/ LeerFila(w) \/ LeerRango(w)
    /\ SoloPet

\* session.get: the object that was read is gone, so the row is read once more.
Releer(w) ==
    /\ En(w, "releer")
    /\ pet' = [pet EXCEPT ![w].paso = "modificar", ![w].copia = filas[Fila(pet[w].op)]]
    /\ SoloPet

----------------------------------------------------------------------------
(* The numbers that the triggers give *)

\* Mutant: the number takes the digits it needs.
RecortaNada(n) == n

\* The first digits of a number that LPAD does not fit.
Recorta(n) == IF n < Tope THEN n ELSE n \div Base

DelDia(ks, d) == {k \in ks : k[1] = "numero" /\ k[2] = d}

\* The accounts of the day that COUNT sees: the policy of the table hides those of the
\* other organizations.
Oculta(p, k) == Politicas /\ p.org # Nada /\ duena[k] \notin {Nada, p.org}
Contadas(p) == {k \in DelDia(claves, p.dia) : ~Oculta(p, k)}

\* Mutant: the lock of the numbers is released with the statement.
NumerarCuentaSuelta(w) ==
    /\ Ops(w, {"cuenta"}) /\ cerrojo = Nada
    /\ pet' = [pet EXCEPT ![w].paso = "insertar",
                          ![w].numero = Recorta(Cardinality(Contadas(pet[w])) + 1)]
    /\ UNCHANGED cerrojo

\* Mutant: COUNT runs with the rights of the owner of the function and sees every row.
NumerarCuentaDeTodas(w) ==
    /\ Ops(w, {"cuenta"}) /\ cerrojo = Nada /\ cerrojo' = w
    /\ pet' = [pet EXCEPT ![w].paso = "insertar", ![w].numero =
                 Recorta(Cardinality(DelDia(claves, pet[w].dia)) + 1)]

\* COUNT under the advisory lock, which lasts until the end of the transaction.
NumerarCuenta(w) ==
    /\ Ops(w, {"cuenta"}) /\ cerrojo = Nada /\ cerrojo' = w
    /\ pet' = [pet EXCEPT ![w].paso = "insertar",
                          ![w].numero = Recorta(Cardinality(Contadas(pet[w])) + 1)]

Numerar(w) ==
    /\ En(w, "numerar") /\ NumerarCuenta(w)
    /\ UNCHANGED <<abiertas, hoy, claves, duena, filas, puestas, bloqueo, asentadas, bitacora>>

----------------------------------------------------------------------------
(* The unique keys of a new row *)

ClavesCuenta(p) == {<<"cuenta", p.dato>>, <<"numero", p.dia, p.numero>>}
ClavesVehiculo(p) == {<<"vehiculo", p.dato>>}
ClavesRol(p) == {<<"rol", p.dato>>}
ClavesUsuario(p) == {<<"usuario", p.dato>>}
ClavesNotificacion(p) == {<<"notificar", p.dato>>}
ClavesCierre(p) == {<<"cierre", p.dato>>} \* one a day and crane

\* The code of an inspection is unique, and nothing gives it one: it is always "".
ClavesInspeccion(p) == {<<"inspeccion", "">>}

\* A supply, an organismo or an empresa has no key but its random identifiers.
ClavesInsumo(p) == {}
ClavesCatalogo(p) == {}

Claves(p) ==
    CASE p.op = "cuenta" -> ClavesCuenta(p)
      [] p.op = "vehiculo" -> ClavesVehiculo(p)
      [] p.op = "rol" -> ClavesRol(p)
      [] p.op \in {"usuario", "superadmin"} -> ClavesUsuario(p)
      [] p.op = "catalogo" -> ClavesCatalogo(p)
      [] p.op = "notificar" -> ClavesNotificacion(p)
      [] p.op = "cierre" -> ClavesCierre(p)
      [] p.op = "inspeccion" -> ClavesInspeccion(p)
      [] OTHER -> ClavesInsumo(p)

\* What the end of a transaction, or of its process, releases.
Suelta(w) ==
    /\ puestas' = [puestas EXCEPT ![w] = {}]
    /\ bloqueo' = [t \in Tablas |-> IF bloqueo[t] = w THEN Nada ELSE bloqueo[t]]
    /\ cerrojo' = IF cerrojo = w THEN Nada ELSE cerrojo

\* An unhandled exception: ROLLBACK, an answer 500 and nothing in the audit log.
Falla(w, ks) ==
    /\ pet' = [pet EXCEPT ![w] = Acabada(@, "error", ks)]
    /\ Suelta(w)
    /\ UNCHANGED <<abiertas, hoy, claves, duena, filas, asentadas, bitacora>>

Disputada(w) == \E v \in Peticiones \ {w} : puestas[v] \cap Claves(pet[w]) # {}

\* guardar turns the IntegrityError into EmailYaRegistrado; no other creation does.
ChoqueUsuario(w) == Rechaza(w) /\ SoloPet

\* The policy of usuario_roles lets only an administrator of an organization give the new
\* user the role.
RolVedado(w) == Ops(w, {"usuario"}) /\ Politicas /\ pet[w].org # Nada /\ Falla(w, {})

\* The model of a NUNC session has a column that its table lacks: the INSERT of a session
\* and the SELECT with which a record begins fail.
SinColumna(w) == En(w, "leer") /\ Ops(w, {"sesion", "registro"}) /\ Falla(w, {})

\* INSERT waits for the transactions that have put the same key, and fails if it is there.
Insertar(w) ==
    /\ En(w, "insertar") /\ ~Disputada(w)
    /\ LET ks == Claves(pet[w])
       IN  IF ks \cap claves # {}
           THEN \/ Ops(w, {"usuario"}) /\ ChoqueUsuario(w)
                \/ ~Ops(w, {"usuario"}) /\ Falla(w, ks \cap claves)
           ELSE \/ /\ puestas' = [puestas EXCEPT ![w] = ks] /\ Pasa(w, "commit")
                   /\ UNCHANGED <<abiertas, hoy, claves, duena, filas, bloqueo, cerrojo,
                                  asentadas, bitacora>>
                \/ RolVedado(w)

\* UPDATE waits for the transaction that has changed the row.
Modificar(w) ==
    /\ En(w, "modificar") /\ bloqueo[Fila(pet[w].op)] = Nada
    /\ bloqueo' = [bloqueo EXCEPT ![Fila(pet[w].op)] = w]
    /\ Pasa(w, "commit")
    /\ UNCHANGED <<abiertas, hoy, claves, duena, filas, puestas, cerrojo, asentadas, bitacora>>

\* statement_timeout cancels what waits for a lock.
Caducar(w) ==
    /\ \/ En(w, "insertar") /\ Disputada(w)
       \/ En(w, "modificar") /\ bloqueo[Fila(pet[w].op)] # Nada
       \/ En(w, "numerar") /\ Ops(w, {"cuenta"}) /\ cerrojo # Nada
    /\ Falla(w, {})

----------------------------------------------------------------------------
(* The end of a request and its trail *)

\* The fields that the request gives, over the row as it read it first.
Nueva(p) == [c \in Campos |-> IF p.pide[c] = Nada THEN p.leida[c] ELSE p.pide[c]]

\* UPDATE has the columns that differ from the row it read last.
Editada(p) ==
    LET f == filas[Fila(p.op)]
    IN  [c \in Campos |-> IF Nueva(p)[c] # p.copia[c] THEN Nueva(p)[c] ELSE f[c]]

\* The triggers of the tables of users and roles write in the same transaction,
\* unsigned.  An error of theirs is only a warning.
FilaDisparador(w) == IF Ops(w, {"rol", "usuario", "superadmin"}) THEN {{}, {<<"disparador", w>>}} ELSE {{}}

Toca(w, v) ==
    \/ puestas[w] \cap Claves(pet[v]) # {}
    \/ \E t \in Tablas : bloqueo[t] = w /\ Ops(v, Ediciones) /\ Fila(pet[v].op) = t

\* COMMIT comes before the answer, which the middleware audits; the script has none.
Asentada(w) ==
    IF Ops(w, {"superadmin"}) THEN Acabada(pet[w], Nada, {})
    ELSE [pet[w] EXCEPT !.paso = "anotar", !.resultado = "exitoso"]

Commit(w) ==
    /\ En(w, "commit")
    /\ claves' = claves \cup puestas[w]
    /\ duena' = [k \in claves' |-> IF k \in claves THEN duena[k] ELSE pet[w].org]
    /\ filas' = IF Ops(w, Ediciones) THEN [filas EXCEPT ![Fila(pet[w].op)] = Editada(pet[w])]
                ELSE filas
    /\ pet' = [v \in Peticiones |->
                 IF v = w THEN Asentada(w)
                 ELSE [pet[v] EXCEPT !.rancio = @ \/ Toca(w, v)]]
    /\ asentadas' = asentadas \cup {w}
    /\ bitacora' \in {bitacora \cup f : f \in FilaDisparador(w)}
    /\ Suelta(w)
    /\ UNCHANGED <<abiertas, hoy>>

\* Mutant: the session closes without raising what COMMIT raised.
FallarCommitCallado(w) ==
    /\ En(w, "commit")
    /\ pet' = [pet EXCEPT ![w].paso = "anotar", ![w].resultado = "exitoso"]
    /\ Suelta(w)
    /\ UNCHANGED <<abiertas, hoy, claves, duena, filas, asentadas, bitacora>>

\* The connection is lost before COMMIT.
FallarCommit(w) == En(w, "commit") /\ Falla(w, {})

\* The signed row of the answer.
FilaRespuesta(w) == <<"respuesta", w, pet[w].resultado>>

\* The task that outlives the answer writes the row in a session of its own.  An error
\* of it is only logged.
Anotar(w) ==
    /\ En(w, "anotar")
    /\ bitacora' \in {bitacora, bitacora \cup {FilaRespuesta(w)}}
    /\ pet' = [pet EXCEPT ![w] = Acabada(@, Nada, {})]
    /\ UNCHANGED <<abiertas, hoy, claves, duena, filas, puestas, bloqueo, cerrojo, asentadas>>

\* The process stops, with the request or with the task that was to audit it.
Caer(w) ==
    /\ pet[w].paso \notin {"libre", "fin"}
    /\ pet' = [pet EXCEPT ![w] = Acabada(@, Nada, {})]
    /\ Suelta(w)
    /\ UNCHANGED <<abiertas, hoy, claves, duena, filas, asentadas, bitacora>>

\* The clock of PostgreSQL.
Medianoche ==
    /\ hoy < MaxDia /\ "cuenta" \in abiertas /\ hoy' = hoy + 1
    /\ UNCHANGED <<abiertas, claves, duena, filas, puestas, bloqueo, cerrojo, pet,
                   asentadas, bitacora>>

\* Nothing is left to do.
Terminado == (\A w \in Peticiones : En(w, "fin")) /\ UNCHANGED vars

Next ==
    \/ \E w \in Peticiones :
         \/ \E op \in Operaciones : Empezar(w, op)
         \/ Leer(w) \/ Releer(w) \/ Numerar(w) \/ Insertar(w) \/ Modificar(w) \/ Caducar(w)
         \/ SinColumna(w) \/ Commit(w) \/ FallarCommit(w) \/ Anotar(w) \/ Caer(w)
    \/ Medianoche \/ Terminado

Spec == Init /\ [][Next]_vars

----------------------------------------------------------------------------
(* Properties *)

TypeOK ==
    /\ abiertas \subseteq Operaciones /\ hoy \in 1..MaxDia
    /\ duena \in [claves -> Organizaciones \cup {Nada}]
    /\ \A k \in claves : k[1] = "numero" => k[3] < Tope
    /\ filas \in [Tablas -> [Campos -> Valores]]
    /\ bloqueo \in [Tablas -> Peticiones \cup {Nada}] /\ cerrojo \in Peticiones \cup {Nada}
    /\ \A w \in Peticiones :
         /\ pet[w].paso \in Pasos /\ pet[w].op \in Operaciones
         /\ pet[w].resultado \in {Nada, "exitoso", "fallido", "error"}
         /\ puestas[w] # {} => En(w, "commit")
    /\ \A t \in Tablas : bloqueo[t] # Nada => En(bloqueo[t], "commit")
    /\ cerrojo # Nada => pet[cerrojo].paso \in {"insertar", "commit"}

\* No account is refused because of its number, whatever creations overlap, until the
\* accounts of the day outgrow the digits of the number; or unless accounts of another
\* organization are hidden from the COUNT.
NumeroSinChoque ==
    \A w \in Peticiones : \A k \in pet[w].choque :
        k[1] = "numero" =>
            \/ Cardinality(DelDia(claves, k[2])) >= Tope - 1
            \/ \E j \in DelDia(claves, k[2]) : Oculta(pet[w], j)

\* The numbers are unique in the database and each organization counts its own accounts, so
\* under the policy the accounts that organizations open on one day are of one of them:
\* the others are refused until midnight.
UnaOrganizacionAlDia ==
    Politicas => \A d \in 1..MaxDia :
        Cardinality({duena[k] : k \in DelDia(claves, d)} \ {Nada}) <= 1

\* A creation that looks for its key fails with an error 500 only if another request put
\* the key meanwhile, or if the key belongs to a row outside the organization of the
\* request, where it does not look: those that could know answer 409.  Closings and
\* inspections do not look, nor do roles whose name comes with spaces.
ErrorSoloPorCarrera ==
    \A w \in Peticiones : \A k \in pet[w].choque :
        k[1] # "numero" =>
            \/ pet[w].rancio \/ pet[w].org \notin {Nada, duena[k]}
            \/ Ops(w, {"cierre", "inspeccion"}) \/ ~pet[w].exacto

\* Nothing but an overlapping change makes a range shrink or undoes a field that the
\* request does not give.
SobrescrituraSoloPorSolape ==
    [][\A w \in asentadas' \ asentadas :
         pet[w].op \in Ediciones /\ ~pet[w].rancio =>
            LET t == Fila(pet[w].op)
            IN  /\ \A c \in Campos : pet[w].pide[c] = Nada => filas'[t][c] = filas[t][c]
                /\ t = "rango" => filas'[t]["a"] > filas[t]["a"]]_vars

\* A row of the audit log that tells of a success, or of a change of a role or a user,
\* tells of what was committed.
RastroFiel ==
    \A f \in bitacora : f[1] = "disparador" \/ f[3] = "exitoso" => f[2] \in asentadas
=============================================================================
