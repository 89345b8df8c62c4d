----------------------------- MODULE Paginacion -----------------------------
(***************************************************************************)
(* The lists of the API read page by page while the rows they are made of  *)
(* change: those that continue after a cursor (the last row given), and    *)
(* those that skip an offset.  One table, the one the list reads; one      *)
(* client that asks for page after page.                                   *)
(*                                                                         *)
(* A row takes the value it is ordered by (creado_en, timestamp, fecha...) *)
(* when its entity is built, and is seen by others at COMMIT: it may turn  *)
(* up behind rows that were already given.                                 *)
(***************************************************************************)
EXTENDS Naturals, FiniteSets

CONSTANTS
    Filas,     \* ids of rows: numbers, compared in the order of the list
    Grupos,    \* values of the columns a row never changes (placa, cuenta_id...)
    MaxMarca,  \* bound on the clock
    Tamanio,   \* items asked for in a page
    Nada

ASSUME ConstantesPaginacion ==
    /\ Filas \subseteq Nat /\ IsFiniteSet(Filas)
    /\ MaxMarca \in Nat /\ Tamanio \in Nat \ {0} /\ Grupos # {}
    /\ Nada \notin Grupos \cup BOOLEAN \cup Nat
    /\ \A s \in SUBSET Filas : s # Nada

VARIABLES
    lista,    \* the list that is read
    filtro,   \* the filters of the request
    fila,     \* fila[f]: the row, and whether its transaction has committed
    reloj,
    paso,     \* whether the client goes on asking
    cursor,   \* what the next page starts from: a row, an offset, or nothing yet
    veces,    \* veces[f]: how often f has been given
    total,    \* the total that came with the last page
    estables, \* rows that have met the filters since the first page
    llegadas  \* with an offset, how many came to meet them since then

vars == <<lista, filtro, fila, reloj, paso, cursor, veces, total, estables, llegadas>>

Cursores == {"cuentas", "traslados", "radicaciones", "novedades", "usuarios",
             "vehiculos", "inspecciones", "registros", "auditoria"}
PorNombre == {"insumos", "cierres", "organismos", "empresas"}
Saltos == PorNombre \cup {"movimientos", "contadores", "activos", "por_vencer", "vencidos",
                        "completados"}
Listas == Cursores \cup Saltos

Fila == [paso : {"ausente", "escrita", "firme"}, marca : 0..MaxMarca,
         grupo : Grupos,
         abierto : BOOLEAN,  \* estado: the process is open, the user or the vehicle active
         vencido : BOOLEAN]  \* vencimiento < current_date

FilaAusente(g) == [paso |-> "ausente", marca |-> 0, grupo |-> g, abierto |-> TRUE,
                   vencido |-> FALSE]

Filtro == [grupo : Grupos \cup {Nada}, abierto : BOOLEAN \cup {Nada}, vencidos : BOOLEAN]

\* Columns of the tables of processes that the lists name.
ColumnasDeProceso == {"estado", "vencimiento", "completado_en", "creado_en"}

----------------------------------------------------------------------------
(* The rows each list selects. *)

Firme == {f \in Filas : fila[f].paso = "firme"}

DelGrupo(f) == filtro.grupo \in {Nada, fila[f].grupo}
EnEstado(f) == filtro.abierto \in {Nada, fila[f].abierto}
Vencida(f) == fila[f].vencido /\ fila[f].abierto

Cuentas == {f \in Firme : DelGrupo(f)}
Traslados == {f \in Firme : DelGrupo(f) /\ EnEstado(f) /\ (filtro.vencidos => Vencida(f))}
Radicaciones == {f \in Firme : DelGrupo(f) /\ EnEstado(f) /\ (filtro.vencidos => Vencida(f))}
Novedades == {f \in Firme : DelGrupo(f) /\ EnEstado(f)}
Usuarios == {f \in Firme : DelGrupo(f) /\ EnEstado(f)}
Vehiculos == {f \in Firme : DelGrupo(f) /\ EnEstado(f)}
Inspecciones == {f \in Firme : DelGrupo(f) /\ EnEstado(f)}
Registros == {f \in Firme : DelGrupo(f)}
Auditoria == {f \in Firme : DelGrupo(f)}
Insumos == {f \in Firme : DelGrupo(f)}
Movimientos == {f \in Firme : DelGrupo(f)}
Cierres == {f \in Firme : DelGrupo(f)}
\* No code makes an organismo or an empresa inactive.
Organismos == {f \in Firme : DelGrupo(f)}
Empresas == {f \in Firme : DelGrupo(f)}
\* What the dashboard counts: one query, no pages.
Contadores == {f \in Firme : DelGrupo(f)}
Activos == {f \in Firme : DelGrupo(f) /\ fila[f].abierto}
PorVencer == {f \in Firme : fila[f].abierto /\ ~fila[f].vencido}
Vencidos == {f \in Firme : Vencida(f)}
\* A row of this list is a process completed in the last days; it leaves with time.
Completados == {f \in Firme : ~fila[f].vencido}

Elegidas ==
    CASE lista = "cuentas" -> Cuentas
      [] lista = "traslados" -> Traslados
      [] lista = "radicaciones" -> Radicaciones
      [] lista = "novedades" -> Novedades
      [] lista = "usuarios" -> Usuarios
      [] lista = "vehiculos" -> Vehiculos
      [] lista = "inspecciones" -> Inspecciones
      [] lista = "registros" -> Registros
      [] lista = "auditoria" -> Auditoria
      [] lista = "insumos" -> Insumos
      [] lista = "movimientos" -> Movimientos
      [] lista = "cierres" -> Cierres
      [] lista = "organismos" -> Organismos
      [] lista = "empresas" -> Empresas
      [] lista = "contadores" -> Contadores
      [] lista = "activos" -> Activos
      [] lista = "por_vencer" -> PorVencer
      [] lista = "vencidos" -> Vencidos
      [] lista = "completados" -> Completados

\* The columns of the process a report names: the dashboard and three reports ask
\* for fecha_vencimiento.
Nombra ==
    CASE lista \in {"contadores", "activos", "por_vencer", "vencidos"} ->
           {"estado", "creado_en", "fecha_vencimiento"}
      [] lista = "completados" -> {"estado", "creado_en", "completado_en"}
      [] OTHER -> {}

----------------------------------------------------------------------------
(* Order and pages. *)

\* ORDER BY creado_en DESC, id DESC
Antes(f, g) ==
    \/ fila[f].marca > fila[g].marca
    \/ fila[f].marca = fila[g].marca /\ f > g

\* The lists with an offset order by one value and say nothing of ties.
AntesDeSalto(f, g) == fila[f].marca > fila[g].marca

\* Mutant: the cursor compares creado_en only.
DespuesDeSinId(f, c) == fila[f].marca < fila[c].marca
\* Mutant: rows created at the instant of the cursor are given again.
DespuesDeInclusive(f, c) == fila[f].marca <= fila[c].marca
\* creado_en < cursor, or the same and a smaller id
DespuesDe(f, c) ==
    \/ fila[f].marca < fila[c].marca
    \/ fila[f].marca = fila[c].marca /\ f < c

\* The first n rows of s: any n that no other comes before.
Primeras(s, n, precede(_, _)) ==
    {p \in SUBSET s :
       /\ Cardinality(p) = IF Cardinality(s) < n THEN Cardinality(s) ELSE n
       /\ \A f \in p, g \in s \ p : ~precede(g, f)}

\* items[-1]
Ultima(p) == CHOOSE f \in p : \A g \in p \ {f} : Antes(g, f)

Dar(p) == veces' = [f \in Filas |-> IF f \in p THEN veces[f] + 1 ELSE veces[f]]

\* What the history of the traversal keeps when the table changes...
Anotado ==
    /\ estables' = IF estables = Nada THEN Nada ELSE estables \cap Elegidas'
    /\ llegadas' = IF estables = Nada \/ lista \in Cursores THEN 0
                   ELSE llegadas + Cardinality(Elegidas' \ Elegidas)

\* ... and when a query starts it.
Empezada ==
    /\ estables' = IF estables = Nada THEN Elegidas ELSE estables
    /\ UNCHANGED llegadas

----------------------------------------------------------------------------
Init ==
    /\ lista \in Listas
    /\ filtro \in Filtro
    /\ fila = [f \in Filas |-> FilaAusente(CHOOSE g \in Grupos : TRUE)]
    /\ reloj = 0
    /\ paso = "pide"
    /\ cursor = Nada
    /\ veces = [f \in Filas |-> 0]
    /\ total = Nada
    /\ estables = Nada
    /\ llegadas = 0

\* The rows of the lists keep the time of their creation, or of their completion;
\* supplies are ordered by name and closings by the date they are for.
Escribir(f) ==
    /\ fila[f].paso = "ausente"
    /\ \E g \in Grupos, m \in 0..MaxMarca :
         /\ lista \notin PorNombre => m = reloj
         /\ fila' = [fila EXCEPT ![f] = [FilaAusente(g) EXCEPT !.paso = "escrita",
                                                               !.marca = m]]
    /\ UNCHANGED <<lista, filtro, reloj, paso, cursor, veces, total>>
    /\ Anotado

\* COMMIT, or ROLLBACK.
Asentar(f) ==
    /\ fila[f].paso = "escrita"
    /\ \/ fila' = [fila EXCEPT ![f].paso = "firme"]
       \/ fila' = [fila EXCEPT ![f] = FilaAusente(fila[f].grupo)]
    /\ UNCHANGED <<lista, filtro, reloj, paso, cursor, veces, total>>
    /\ Anotado

\* A process ends, a novedad is resolved, a user is suspended or comes back, an
\* inspection is found fit or unfit.
Cambiar(f) ==
    /\ f \in Firme
    /\ \/ lista \in {"traslados", "radicaciones", "novedades", "activos", "por_vencer",
                     "vencidos"} /\ fila[f].abierto
       \/ lista \in {"usuarios", "inspecciones"}
    /\ fila' = [fila EXCEPT ![f].abierto = ~fila[f].abierto]
    /\ UNCHANGED <<lista, filtro, reloj, paso, cursor, veces, total>>
    /\ Anotado

\* current_date reaches a deadline.  Among completed processes the oldest leave first.
Vencer(f) ==
    /\ lista \in {"traslados", "radicaciones", "activos", "por_vencer", "vencidos",
                  "completados"}
    /\ f \in Firme /\ ~fila[f].vencido
    /\ lista = "completados" =>
         \A g \in Firme : fila[g].marca < fila[f].marca => fila[g].vencido
    /\ fila' = [fila EXCEPT ![f].vencido = TRUE]
    /\ UNCHANGED <<lista, filtro, reloj, paso, cursor, veces, total>>
    /\ Anotado

Tic ==
    /\ reloj < MaxMarca
    /\ reloj' = reloj + 1
    /\ UNCHANGED <<lista, filtro, fila, paso, cursor, veces, total, estables, llegadas>>

\* The COUNT of the audit log takes every filter but the cursor.
Contar ==
    /\ lista = "auditoria" /\ paso = "pide" /\ total = Nada
    /\ total' = Cardinality(Elegidas)
    /\ Empezada
    /\ UNCHANGED <<lista, filtro, fila, reloj, paso, cursor, veces>>

\* Mutant: the cursor is the row too many, not the last one given.
PedirTrasCursorSobra ==
    /\ lista \in Cursores /\ paso = "pide"
    /\ lista = "auditoria" => total # Nada
    /\ LET quedan == {f \in Elegidas : cursor = Nada \/ DespuesDe(f, cursor)}
       IN \E p \in Primeras(quedan, Tamanio, Antes),
             q \in Primeras(quedan, Tamanio + 1, Antes) :
            /\ Dar(p)
            /\ IF Cardinality(quedan) > Tamanio
               THEN cursor' = Ultima(q) /\ total' = Nada /\ UNCHANGED paso
               ELSE paso' = "fin" /\ UNCHANGED <<cursor, total>>
    /\ Empezada /\ UNCHANGED <<lista, filtro, fila, reloj>>
\* LIMIT tamanio + 1: the row too many says that there is a next page.
PedirTrasCursor ==
    /\ lista \in Cursores /\ paso = "pide"
    /\ lista = "auditoria" => total # Nada
    /\ LET quedan == {f \in Elegidas : cursor = Nada \/ DespuesDe(f, cursor)}
       IN \E p \in Primeras(quedan, Tamanio, Antes) :
            /\ Dar(p)
            /\ IF Cardinality(quedan) > Tamanio
               THEN cursor' = Ultima(p) /\ total' = Nada /\ UNCHANGED paso
               ELSE paso' = "fin" /\ UNCHANGED <<cursor, total>>
    /\ Empezada
    /\ UNCHANGED <<lista, filtro, fila, reloj>>

\* Mutant: the next offset counts the row that was only looked at.
PedirSaltoDeMas ==
    /\ lista \in Saltos /\ paso = "pide" /\ Nombra \subseteq ColumnasDeProceso
    /\ LET salto == IF cursor = Nada THEN 0 ELSE cursor
       IN \E antes \in Primeras(Elegidas, salto, AntesDeSalto) :
          \E p \in Primeras(Elegidas \ antes, Tamanio, AntesDeSalto) :
            /\ Dar(p)
            /\ cursor' = salto + Tamanio + 1
            /\ paso' = IF Cardinality(p) < Tamanio THEN "fin" ELSE "pide"
    /\ Empezada /\ UNCHANGED <<lista, filtro, fila, reloj, total>>
\* OFFSET and LIMIT, each page from the table as it is by then.  The report of
\* completed processes looks for one row more; the client of the others asks until
\* a page is not full.
PedirSalto ==
    /\ lista \in Saltos /\ paso = "pide" /\ Nombra \subseteq ColumnasDeProceso
    /\ LET salto == IF cursor = Nada THEN 0 ELSE cursor
       IN \E antes \in Primeras(Elegidas, salto, AntesDeSalto) :
          \E p \in Primeras(Elegidas \ antes, Tamanio, AntesDeSalto) :
            /\ Dar(p)
            /\ cursor' = salto + Tamanio
            /\ paso' = IF \/ Cardinality(p) < Tamanio
                          \/ lista = "completados" /\ Elegidas = antes \cup p
                       THEN "fin" ELSE "pide"
    /\ Empezada
    /\ UNCHANGED <<lista, filtro, fila, reloj, total>>

\* PostgreSQL refuses a query that names a column the table does not have.
Rechazar ==
    /\ paso = "pide" /\ ~(Nombra \subseteq ColumnasDeProceso)
    /\ paso' = "error"
    /\ Empezada
    /\ UNCHANGED <<lista, filtro, fila, reloj, cursor, veces, total>>

\* What happens to the table after the last page is of no account.
DeLaTabla ==
    /\ paso = "pide"
    /\ \E f \in Filas : Escribir(f) \/ Asentar(f) \/ Cambiar(f) \/ Vencer(f)

DelCliente == Contar \/ PedirTrasCursor \/ PedirSalto \/ Rechazar

Next == DeLaTabla \/ DelCliente \/ Tic

Spec == Init /\ [][Next]_vars

----------------------------------------------------------------------------
(* Properties. *)

Dadas == {f \in Filas : veces[f] > 0}

TypeOK ==
    /\ lista \in Listas /\ filtro \in Filtro
    /\ fila \in [Filas -> Fila]
    /\ reloj \in 0..MaxMarca
    /\ paso \in {"pide", "fin", "error"}
    /\ cursor # Nada =>
         IF lista \in Cursores THEN cursor \in Filas /\ veces[cursor] > 0 ELSE cursor \in Nat
    /\ veces \in [Filas -> Nat]
    /\ total \in {Nada} \cup 0..Cardinality(Filas)
    /\ estables = Nada \/ estables \subseteq Filas
    /\ llegadas \in Nat

\* A list with a cursor gives no row twice, whatever commits late, changes state or
\* shares an instant with the row the cursor names.
SinRepetidos == lista \in Cursores => \A f \in Filas : veces[f] <= 1

\* It leaves out no row that met the filters from the first page to the last.
SinOmisiones == lista \in Cursores /\ paso = "fin" => estables \subseteq Dadas

Repetidas == {d \in Filas \X (2..2 * Cardinality(Filas)) : d[2] <= veces[d[1]]}

\* A list with an offset repeats at most one row per row that came meanwhile, and
\* leaves out none, as long as no two rows tie and rows only leave from the end.
DesvioAcotado ==
    lista \in Saltos /\ (\A f, g \in Firme : fila[f].marca = fila[g].marca => f = g) =>
      /\ Cardinality(Repetidas) <= llegadas
      /\ paso = "fin" => estables \subseteq Dadas

=============================================================================
