-------------------------- MODULE PaginacionTeoremas --------------------------
(* What the lists with a cursor guarantee for any number of rows and any size of
   page, while the rows are written, change and leave the list. *)
EXTENDS Paginacion, FiniteSetsExt, FiniteSetTheorems, WellFoundedInduction, TLAPS

----------------------------------------------------------------------------
(* Sets of naturals and functions on finite sets *)

\* A set of naturals that is not empty has a least element.
LEMMA MinimoNat ==
    ASSUME NEW S, S \subseteq Nat, S # {}
    PROVE  \E n \in S : \A k \in S : n <= k
<1>1. PICK n \in S : \A k \in S : <<k, n>> \notin OpToRel(<, Nat)
  BY WFMin, NatLessThanWellFounded
<1>2. ASSUME NEW k \in S PROVE n <= k
  <2>1. <<k, n>> \notin OpToRel(<, Nat)
    BY <1>1
  <2>2. ~(k < n)
    BY <2>1 DEF OpToRel
  <2>3. QED
    BY <2>2
<1>3. QED
  BY <1>2

\* A function that tells the elements of a finite set apart keeps their number.
LEMMA ImagenInyectiva ==
    ASSUME NEW S, IsFiniteSet(S), NEW f, \A x, y \in S : f[x] = f[y] => x = y
    PROVE  IsFiniteSet({f[x] : x \in S}) /\ Cardinality({f[x] : x \in S}) = Cardinality(S)
<1> DEFINE T == {f[x] : x \in S}
           g == [x \in S |-> f[x]]
<1>1. g \in [S -> T] /\ (\A x, y \in S : g[x] = g[y] => x = y) /\ \A t \in T : \E x \in S : g[x] = t
  OBVIOUS
<1>2. g \in Bijection(S, T)
  <2> HIDE DEF g, T
  <2> QED
    BY <1>1 DEF Bijection, Injection, IsInjective, Surjection
<1> HIDE DEF g, T
<1>3. ExistsBijection(S, T)
  BY <1>2 DEF ExistsBijection
<1>4. IsFiniteSet(T) /\ Cardinality(T) = Cardinality(S)
  BY <1>3, FS_Bijection
<1>5. QED
  BY <1>4 DEF T

----------------------------------------------------------------------------
(* The inductive invariant *)

ConCursor == lista \in Cursores /\ paso = "pide"

\* Only rows that others see are given, and what selects the stable ones does so still.
DadasFirmes == Dadas \subseteq Firme
EstablesElegidas == estables # Nada => estables \subseteq Elegidas

\* The traversal starts with its first query.
Empieza == /\ estables = Nada => cursor = Nada
           /\ paso = "fin" => estables # Nada

\* The cursor separates the rows that were given from the stable ones that were not.
DadasAntes == ConCursor => \A f \in Dadas : cursor # Nada /\ ~DespuesDe(f, cursor)
PorDar == ConCursor /\ estables # Nada =>
            \A f \in estables \ Dadas : cursor = Nada \/ DespuesDe(f, cursor)

IInv == /\ TypeOK /\ DadasFirmes /\ EstablesElegidas /\ Empieza /\ DadasAntes /\ PorDar
        /\ SinRepetidos /\ SinOmisiones

----------------------------------------------------------------------------
(* The order of the rows *)

\* What the proofs need of the constants.
LEMMA Constantes == /\ Filas \subseteq Nat /\ IsFiniteSet(Filas) /\ MaxMarca \in Nat
                    /\ Tamanio \in Nat /\ Tamanio >= 1 /\ Grupos # {}
                    /\ Nada \notin Nat /\ Nada \notin SUBSET Filas
BY ConstantesPaginacion

\* A set of rows has a last one in the order of the list: of the oldest, the least id.
LEMMA HayUltima ==
    ASSUME NEW p \in SUBSET Filas, p # {}, TypeOK
    PROVE  Ultima(p) \in p /\ \A g \in p \ {Ultima(p)} : Antes(g, Ultima(p))
<1>1. \A f \in p : f \in Nat /\ fila[f].marca \in Nat
  BY Constantes DEF TypeOK, Fila
<1> DEFINE M == {fila[f].marca : f \in p}
<1>2. PICK m \in M : \A k \in M : m <= k
  <2>1. M \subseteq Nat /\ M # {}
    BY <1>1
  <2> HIDE DEF M
  <2>2. QED
    BY <2>1, MinimoNat
<1> DEFINE I == {f \in p : fila[f].marca = m}
<1>3. PICK i \in I : \A k \in I : i <= k
  <2>1. I \subseteq Nat /\ I # {}
    BY <1>1, <1>2
  <2> HIDE DEF I
  <2>2. QED
    BY <2>1, MinimoNat
<1>4. i \in p
  OBVIOUS
<1>5. ASSUME NEW g \in p \ {i} PROVE Antes(g, i)
  <2>1. fila[g].marca >= m /\ fila[i].marca = m /\ m \in Nat
    BY <1>1, <1>2, <1>3
  <2>2. fila[g].marca = m => g >= i /\ g # i
    BY <1>1, <1>3, <1>5
  <2>3. QED
    BY <2>1, <2>2, <1>1, <1>4, <1>5 DEF Antes
<1>6. QED
  BY <1>4, <1>5 DEF Ultima

\* What comes before a row and what comes after it.
LEMMA Orden ==
    ASSUME TypeOK, NEW f \in Filas, NEW g \in Filas, NEW c \in Filas
    PROVE  /\ Antes(f, g) <=> DespuesDe(g, f)
           /\ f # g => Antes(f, g) \/ Antes(g, f)
           /\ ~(Antes(f, g) /\ Antes(g, f)) /\ ~DespuesDe(f, f)
           /\ DespuesDe(f, g) /\ DespuesDe(g, c) => DespuesDe(f, c)
<1>1. f \in Nat /\ g \in Nat /\ c \in Nat
  BY Constantes
<1>2. fila[f].marca \in Nat /\ fila[g].marca \in Nat /\ fila[c].marca \in Nat
  BY Constantes DEF TypeOK, Fila
<1>3. QED
  BY <1>1, <1>2 DEF Antes, DespuesDe

----------------------------------------------------------------------------
(* The rows of the list *)

\* Every list selects rows that others see.
LEMMA ElegidasFirmes == TypeOK => Elegidas \subseteq Firme
BY DEF TypeOK, Listas, Cursores, Saltos, PorNombre, Elegidas, Cuentas, Traslados, Radicaciones,
   Novedades, Usuarios, Vehiculos, Inspecciones, Registros, Auditoria, Insumos, Movimientos,
   Cierres, Organismos, Empresas, Contadores, Activos, PorVencer, Vencidos, Completados

\* A step that leaves the table alone leaves the list alone.
LEMMA ElegidasIguales == UNCHANGED <<lista, filtro, fila>> => Elegidas' = Elegidas
BY DEF Elegidas, Cuentas, Traslados, Radicaciones, Novedades, Usuarios, Vehiculos, Inspecciones,
   Registros, Auditoria, Insumos, Movimientos, Cierres, Organismos, Empresas, Contadores,
   Activos, PorVencer, Vencidos, Completados, Firme, DelGrupo, EnEstado, Vencida

\* They are finitely many, no more than the rows of the table.
LEMMA ElegidasFinitas ==
    ASSUME TypeOK, NEW s \in SUBSET Filas
    PROVE  IsFiniteSet(s) /\ Cardinality(s) \in 0..Cardinality(Filas)
<1>1. IsFiniteSet(s) /\ Cardinality(s) <= Cardinality(Filas)
  BY Constantes, FS_Subset
<1>2. Cardinality(s) \in Nat /\ Cardinality(Filas) \in Nat
  BY <1>1, Constantes, FS_CardinalityType
<1>3. QED
  BY <1>1, <1>2

----------------------------------------------------------------------------
(* The initial states *)

\* The invariant holds before the first query.
LEMMA InitInv == Init => IInv
<1> SUFFICES ASSUME Init PROVE IInv
  OBVIOUS
<1>1. \A f \in Filas : FilaAusente(CHOOSE g \in Grupos : TRUE) \in Fila
  BY Constantes DEF FilaAusente, Fila
<1>2. TypeOK
  BY <1>1, Constantes DEF Init, TypeOK
<1>3. Dadas = {} /\ paso = "pide"
  BY DEF Init, Dadas
<1>4. QED
  BY <1>2, <1>3 DEF IInv, Init, DadasFirmes, EstablesElegidas, Empieza, DadasAntes, PorDar,
     SinRepetidos, SinOmisiones, Dadas

----------------------------------------------------------------------------
(* The table changes *)

\* A row that others see stays, with its mark.
LEMMA FirmeQueda ==
    ASSUME TypeOK, DeLaTabla
    PROVE  /\ fila' \in [Filas -> Fila]
           /\ \A f \in Firme : f \in Firme' /\ fila'[f].marca = fila[f].marca
           /\ paso = "pide" /\ UNCHANGED <<lista, filtro, reloj, paso, cursor, veces, total>>
           /\ Anotado
<1> PICK f \in Filas : Escribir(f) \/ Asentar(f) \/ Cambiar(f) \/ Vencer(f)
  BY DEF DeLaTabla
<1>1. CASE Escribir(f)
  <2>1. PICK g \in Grupos, m \in 0..MaxMarca :
          fila' = [fila EXCEPT ![f] = [FilaAusente(g) EXCEPT !.paso = "escrita", !.marca = m]]
    BY <1>1 DEF Escribir
  <2>2. [FilaAusente(g) EXCEPT !.paso = "escrita", !.marca = m] \in Fila
    BY DEF FilaAusente, Fila
  <2>3. QED
    BY <1>1, <2>1, <2>2 DEF Escribir, DeLaTabla, TypeOK, Firme
<1>2. CASE Asentar(f)
  <2>1. [fila[f] EXCEPT !.paso = "firme"] \in Fila /\ FilaAusente(fila[f].grupo) \in Fila
    BY Constantes DEF FilaAusente, Fila, TypeOK
  <2>2. QED
    BY <1>2, <2>1 DEF Asentar, DeLaTabla, TypeOK, Firme
<1>3. CASE Cambiar(f)
  <2>1. [fila[f] EXCEPT !.abierto = ~fila[f].abierto] \in Fila
    BY DEF Fila, TypeOK
  <2>2. fila' = [fila EXCEPT ![f] = [fila[f] EXCEPT !.abierto = ~fila[f].abierto]]
    BY <1>3 DEF Cambiar
  <2>3. QED
    BY <1>3, <2>1, <2>2 DEF Cambiar, DeLaTabla, TypeOK, Firme
<1>4. CASE Vencer(f)
  <2>1. [fila[f] EXCEPT !.vencido = TRUE] \in Fila
    BY DEF Fila, TypeOK
  <2>2. QED
    BY <1>4, <2>1 DEF Vencer, DeLaTabla, TypeOK, Firme
<1>5. QED
  BY <1>1, <1>2, <1>3, <1>4

\* The list is made of rows of the table after the step too.
LEMMA ListaDespues ==
    ASSUME TypeOK, DeLaTabla
    PROVE  Elegidas' \in SUBSET Filas
<1>1. lista' \in Listas
  BY FirmeQueda DEF TypeOK
<1>2. QED
  BY <1>1 DEF Listas, Cursores, Saltos, PorNombre, Elegidas, Cuentas, Traslados, Radicaciones,
     Novedades, Usuarios, Vehiculos, Inspecciones, Registros, Auditoria, Insumos, Movimientos,
     Cierres, Organismos, Empresas, Contadores, Activos, PorVencer, Vencidos, Completados, Firme

\* Rows that come late were not stable, those that leave are stable no more, and no mark
\* moves: the cursor separates what it separated.
LEMMA PasoTabla ==
    ASSUME IInv, DeLaTabla
    PROVE  IInv'
<1>1. /\ fila' \in [Filas -> Fila] /\ paso = "pide" /\ Anotado
      /\ \A f \in Firme : f \in Firme' /\ fila'[f].marca = fila[f].marca
      /\ UNCHANGED <<lista, filtro, reloj, paso, cursor, veces, total>>
  BY FirmeQueda DEF IInv
<1>2. TypeOK
  BY DEF IInv
<1>3. TypeOK'
  <2>1. Elegidas \in SUBSET Filas
    BY <1>2, ElegidasFirmes DEF Firme
  <2>2. Elegidas' \in SUBSET Filas
    BY <1>2, ListaDespues
  <2>3. Cardinality(Elegidas' \ Elegidas) \in Nat
    BY <2>2, <1>2, ElegidasFinitas
  <2>4. llegadas' \in Nat
    BY <2>3, <1>1, <1>2 DEF Anotado, TypeOK
  <2>5. estables' = Nada \/ estables' \subseteq Filas
    BY <2>2, <1>1 DEF Anotado
  <2>6. QED
    BY <1>1, <1>2, <2>4, <2>5 DEF TypeOK
<1>4. estables = Nada <=> estables' = Nada
  <2>1. estables \cap Elegidas' \in SUBSET Filas \/ estables = Nada
    BY <1>2 DEF TypeOK
  <2>2. QED
    BY <2>1, <1>1, Constantes DEF Anotado
<1>5. Dadas' = Dadas
  BY <1>1 DEF Dadas
<1>6. DadasFirmes' /\ EstablesElegidas' /\ Empieza'
  BY <1>1, <1>4, <1>5 DEF IInv, DadasFirmes, EstablesElegidas, Empieza, Anotado
<1>7. cursor # Nada /\ ConCursor => cursor \in Firme
  BY <1>2 DEF IInv, TypeOK, DadasFirmes, Dadas, ConCursor
<1>8. ASSUME ConCursor, cursor # Nada, NEW f \in Firme
      PROVE  DespuesDe(f, cursor)' <=> DespuesDe(f, cursor)
  BY <1>1, <1>7, <1>8 DEF DespuesDe
<1>9. DadasAntes'
  BY <1>1, <1>5, <1>8 DEF IInv, DadasAntes, ConCursor, DadasFirmes
<1>10. PorDar'
  <2>1. estables # Nada => estables \subseteq Firme /\ estables' \subseteq estables
    BY <1>1, <1>2, ElegidasFirmes DEF IInv, EstablesElegidas, Anotado
  <2>2. QED
    BY <1>1, <1>4, <1>5, <1>8, <2>1 DEF IInv, PorDar, ConCursor
<1>11. SinRepetidos' /\ SinOmisiones'
  BY <1>1 DEF IInv, SinRepetidos, SinOmisiones
<1>12. QED
  BY <1>3, <1>6, <1>9, <1>10, <1>11 DEF IInv

----------------------------------------------------------------------------
(* The client asks *)

\* A query starts the traversal, if none has; the rows to give are then all of them.
LEMMA Comienzo ==
    ASSUME IInv, Empezada, UNCHANGED <<lista, filtro, fila>>
    PROVE  /\ estables' # Nada /\ estables' \subseteq Elegidas /\ Elegidas' = Elegidas
           /\ estables' \subseteq Filas /\ Elegidas \subseteq Firme /\ llegadas' = llegadas
           /\ ConCursor => \A f \in estables' \ Dadas : cursor = Nada \/ DespuesDe(f, cursor)
<1>1. TypeOK /\ Elegidas \subseteq Firme /\ Elegidas \in SUBSET Filas
  BY ElegidasFirmes DEF IInv, Firme
<1>2. Elegidas # Nada
  BY <1>1, Constantes
<1>3. QED
  BY <1>1, <1>2, ElegidasIguales DEF IInv, Empezada, EstablesElegidas, Empieza, PorDar, TypeOK

\* A page changes nothing but the traversal.
LEMMA PasoContar ==
    ASSUME IInv, Contar \/ Rechazar
    PROVE  IInv'
<1>1. UNCHANGED <<lista, filtro, fila, reloj, cursor, veces>> /\ Empezada /\ paso = "pide"
  BY DEF Contar, Rechazar
<1>2. TypeOK
  BY DEF IInv
<1>3. /\ estables' # Nada /\ estables' \subseteq Elegidas' /\ llegadas' = llegadas
      /\ ConCursor => \A f \in estables' \ Dadas : cursor = Nada \/ DespuesDe(f, cursor)
      /\ estables' \subseteq Filas
  BY <1>1, Comienzo
<1>4. total' \in {Nada} \cup 0..Cardinality(Filas) /\ paso' \in {"pide", "error"}
  BY <1>2, ElegidasFirmes, ElegidasFinitas DEF Contar, Rechazar, Firme, TypeOK
<1>5. TypeOK'
  BY <1>1, <1>2, <1>3, <1>4 DEF TypeOK
<1>6. Dadas' = Dadas /\ Firme' = Firme /\ \A f : DespuesDe(f, cursor)' <=> DespuesDe(f, cursor)
  BY <1>1 DEF Dadas, Firme, DespuesDe
<1>7. DadasFirmes' /\ EstablesElegidas' /\ Empieza' /\ SinRepetidos' /\ SinOmisiones'
  BY <1>1, <1>3, <1>4, <1>6 DEF IInv, DadasFirmes, EstablesElegidas, Empieza, SinRepetidos,
     SinOmisiones
<1>8. DadasAntes' /\ PorDar'
  BY <1>1, <1>3, <1>6 DEF IInv, DadasAntes, PorDar, ConCursor
<1>9. QED
  BY <1>5, <1>7, <1>8 DEF IInv

\* After the cursor come rows that were never given; the last row of the page separates
\* them from those that are left.
LEMMA PasoPedirTrasCursor ==
    ASSUME IInv, PedirTrasCursor
    PROVE  IInv'
<1> DEFINE quedan == {f \in Elegidas : cursor = Nada \/ DespuesDe(f, cursor)}
<1>1. PICK p \in Primeras(quedan, Tamanio, Antes) :
        /\ Dar(p)
        /\ IF Cardinality(quedan) > Tamanio
           THEN cursor' = Ultima(p) /\ total' = Nada /\ UNCHANGED paso
           ELSE paso' = "fin" /\ UNCHANGED <<cursor, total>>
  BY DEF PedirTrasCursor
<1>2. /\ ConCursor /\ lista \in Cursores /\ paso = "pide" /\ Empezada
      /\ UNCHANGED <<lista, filtro, fila, reloj>>
  BY DEF PedirTrasCursor, ConCursor
<1>3. /\ estables' # Nada /\ estables' \subseteq Elegidas /\ Elegidas' = Elegidas
      /\ estables' \subseteq Filas /\ Elegidas \subseteq Firme /\ llegadas' = llegadas
      /\ \A f \in estables' \ Dadas : f \in quedan
  BY <1>2, Comienzo
<1>4. TypeOK /\ quedan \in SUBSET Filas
  BY <1>3 DEF IInv, Firme
<1>5. /\ p \subseteq quedan /\ p \in SUBSET Filas
      /\ Cardinality(p) = IF Cardinality(quedan) < Tamanio THEN Cardinality(quedan) ELSE Tamanio
      /\ \A f \in p, g \in quedan \ p : ~Antes(g, f)
  BY <1>4 DEF Primeras
<1>6. \A f \in p : f \notin Dadas /\ f \in Firme
  BY <1>2, <1>3, <1>5 DEF IInv, DadasAntes
<1>7. Dadas' = Dadas \cup p /\ veces' \in [Filas -> Nat] /\ \A f \in Filas : veces'[f] <= 1
  <2>1. \A f \in Filas : veces[f] \in Nat /\ veces[f] <= 1
    BY <1>2, <1>4 DEF IInv, SinRepetidos, TypeOK
  <2>2. \A f \in Filas : veces'[f] = IF f \in p THEN veces[f] + 1 ELSE veces[f]
    BY <1>1 DEF Dar
  <2>3. \A f \in Filas : veces'[f] \in Nat
    BY <2>1, <2>2
  <2>4. \A f \in Filas : veces'[f] > 0 <=> veces[f] > 0 \/ f \in p
    BY <2>1, <2>2
  <2>5. \A f \in p : veces[f] = 0
    BY <1>5, <1>6, <2>1 DEF Dadas
  <2>6. QED
    BY <1>1, <1>5, <2>1, <2>2, <2>3, <2>4, <2>5 DEF Dadas, Dar
<1>8. DadasFirmes' /\ EstablesElegidas' /\ SinRepetidos' /\ Empieza'
  <2>1. Firme' = Firme /\ Dadas \subseteq Firme
    BY <1>2 DEF Firme, IInv, DadasFirmes
  <2>2. QED
    BY <2>1, <1>3, <1>6, <1>7 DEF DadasFirmes, EstablesElegidas, SinRepetidos, Empieza
<1> DEFINE resto == quedan \ p
<1>9. \A f \in estables' \ Dadas' : f \in resto
  BY <1>3, <1>7
<1>10. Cardinality(quedan) \in Nat /\ IsFiniteSet(quedan)
  BY <1>4, ElegidasFinitas
<1>11. CASE Cardinality(quedan) > Tamanio
  <2> DEFINE u == Ultima(p)
  <2>1. cursor' = u /\ total' = Nada /\ paso' = paso
    BY <1>1, <1>11
  <2>2. p # {}
    BY <1>5, <1>10, <1>11, Constantes, FS_EmptySet
  <2>3. u \in p /\ \A g \in p \ {u} : Antes(g, u)
    BY <1>4, <1>5, <2>2, HayUltima
  <2>4. u \in Filas /\ veces'[u] > 0 /\ u \in Nat
    BY <1>5, <1>7, <2>3, Constantes DEF Dadas
  <2> HIDE DEF u
  <2>5. TypeOK'
    BY <1>2, <1>3, <1>4, <1>7, <2>1, <2>4 DEF TypeOK
  <2>6. ASSUME NEW f \in Dadas \cup p PROVE ~DespuesDe(f, u)
    <3>1. f \in Filas
      BY <1>5 DEF Dadas
    <3>2. CASE f \in p
      BY <1>4, <2>3, <2>4, <3>1, <3>2, Orden
    <3>3. CASE f \in Dadas
      <4>1. cursor # Nada /\ ~DespuesDe(f, cursor) /\ cursor \in Filas
        BY <1>2, <1>4, <3>3 DEF IInv, DadasAntes, TypeOK
      <4>2. DespuesDe(u, cursor)
        BY <1>5, <2>3, <4>1
      <4>3. QED
        BY <1>4, <2>4, <3>1, <4>1, <4>2, Orden
    <3>4. QED
      BY <3>2, <3>3
  <2>7. ASSUME NEW f \in resto PROVE DespuesDe(f, u)
    <3>1. ~Antes(f, u) /\ f # u /\ f \in Filas
      BY <1>4, <1>5, <2>3
    <3>2. QED
      BY <1>4, <2>4, <3>1, Orden
  <2>8. \A f : DespuesDe(f, cursor)' <=> DespuesDe(f, u)
    BY <1>2, <2>1 DEF DespuesDe
  <2>9. u # Nada
    BY <2>4, Constantes
  <2>10. DadasAntes' /\ PorDar'
    BY <1>7, <1>9, <2>1, <2>6, <2>7, <2>8, <2>9 DEF DadasAntes, PorDar
  <2>11. SinOmisiones'
    BY <1>2, <2>1 DEF SinOmisiones
  <2>12. QED
    BY <1>8, <2>5, <2>10, <2>11 DEF IInv
<1>12. CASE ~(Cardinality(quedan) > Tamanio)
  <2>1. paso' = "fin" /\ UNCHANGED <<cursor, total>>
    BY <1>1, <1>12
  <2>2. Cardinality(p) = Cardinality(quedan)
    BY <1>5, <1>10, <1>12, Constantes
  <2>3. quedan = p
    <3> HIDE DEF quedan
    <3> QED
      BY <1>5, <1>10, <2>2, FS_Subset
  <2>4. SinOmisiones'
    BY <1>3, <1>7, <2>3 DEF SinOmisiones
  <2>5. \A f \in Dadas : veces'[f] > 0
    BY <1>7 DEF Dadas
  <2>6. TypeOK'
    BY <1>2, <1>3, <1>4, <1>7, <2>1, <2>5 DEF TypeOK, Dadas
  <2>7. DadasAntes' /\ PorDar'
    BY <2>1 DEF DadasAntes, PorDar, ConCursor
  <2>8. QED
    BY <1>8, <2>4, <2>6, <2>7 DEF IInv
<1>13. QED
  BY <1>11, <1>12

\* A page after an offset.
LEMMA PasoPedirSalto ==
    ASSUME IInv, PedirSalto
    PROVE  IInv'
<1> DEFINE salto == IF cursor = Nada THEN 0 ELSE cursor
<1>1. PICK antes \in Primeras(Elegidas, salto, AntesDeSalto) :
        \E p \in Primeras(Elegidas \ antes, Tamanio, AntesDeSalto) :
            Dar(p) /\ cursor' = salto + Tamanio /\ paso' \in {"fin", "pide"}
  BY DEF PedirSalto
<1>2. PICK p \in Primeras(Elegidas \ antes, Tamanio, AntesDeSalto) :
        Dar(p) /\ cursor' = salto + Tamanio /\ paso' \in {"fin", "pide"}
  BY <1>1
<1>3. /\ lista \notin Cursores /\ ~ConCursor /\ ~ConCursor'
      /\ Empezada /\ UNCHANGED <<lista, filtro, fila, reloj, total>>
  BY DEF PedirSalto, Saltos, PorNombre, Cursores, ConCursor
<1>4. /\ estables' # Nada /\ estables' \subseteq Elegidas /\ Elegidas' = Elegidas
      /\ estables' \subseteq Filas /\ Elegidas \subseteq Firme /\ llegadas' = llegadas
  BY <1>3, Comienzo
<1>5. TypeOK
  BY DEF IInv
<1>6. p \subseteq Firme
  BY <1>2, <1>4 DEF Primeras
<1>7. veces' \in [Filas -> Nat] /\ Dadas' = Dadas \cup p
  <2>1. \A f \in Filas : veces[f] \in Nat
    BY <1>5 DEF TypeOK
  <2>2. \A f \in Filas : veces'[f] = IF f \in p THEN veces[f] + 1 ELSE veces[f]
    BY <1>2 DEF Dar
  <2>3. \A f \in Filas : veces'[f] \in Nat /\ (veces'[f] > 0 <=> veces[f] > 0 \/ f \in p)
    BY <2>1, <2>2
  <2>4. QED
    BY <1>2, <1>6, <2>3 DEF Dar, Dadas, Firme
<1>8. cursor' \in Nat
  BY <1>2, <1>3, <1>5, Constantes DEF TypeOK
<1>9. TypeOK'
  BY <1>2, <1>3, <1>4, <1>5, <1>7, <1>8 DEF TypeOK
<1>10. Firme' = Firme
  BY <1>3 DEF Firme
<1>11. QED
  BY <1>3, <1>4, <1>6, <1>7, <1>9, <1>10 DEF IInv, DadasFirmes, EstablesElegidas, Empieza, DadasAntes,
     PorDar, SinRepetidos, SinOmisiones

----------------------------------------------------------------------------
(* Theorems *)

\* Every step keeps the invariant.
LEMMA NextInv == IInv /\ [Next]_vars => IInv'
<1> SUFFICES ASSUME IInv, [Next]_vars PROVE IInv'
  OBVIOUS
<1>1. ASSUME UNCHANGED <<lista, filtro, fila, paso, cursor, veces, total, estables, llegadas>>,
             reloj' \in 0..MaxMarca
      PROVE  IInv'
  <2>1. Elegidas' = Elegidas
    BY <1>1, ElegidasIguales
  <2>2. TypeOK'
    BY <1>1 DEF IInv, TypeOK
  <2>3. QED
    BY <1>1, <2>1, <2>2 DEF IInv, DadasFirmes, EstablesElegidas, Empieza, DadasAntes, PorDar,
       SinRepetidos, SinOmisiones, Dadas, Firme, ConCursor, DespuesDe
<1>2. CASE UNCHANGED vars
  BY <1>1, <1>2 DEF vars, IInv, TypeOK
<1>3. CASE Tic
  <2>1. reloj + 1 \in 0..MaxMarca
    BY <1>3, Constantes DEF Tic, IInv, TypeOK
  <2>2. QED
    BY <1>1, <1>3, <2>1 DEF Tic
<1>4. QED
  BY <1>2, <1>3, PasoTabla, PasoContar, PasoPedirTrasCursor, PasoPedirSalto DEF Next, DelCliente

\* The invariant holds in every behaviour.
LEMMA Invariante == Spec => []IInv
BY InitInv, NextInv, PTL DEF Spec

\* A list goes on from a row that it gave, or from an offset; the total of the audit log
\* counts rows of the table.
THEOREM Tipos == Spec => []TypeOK
<1>1. IInv => TypeOK
  BY DEF IInv
<1>2. QED
  BY <1>1, Invariante, PTL

\* aplicar_cursor: no row is given twice, whatever is written, completed or suspended
\* between two pages, and however many rows share an instant.
THEOREM NadaDosVeces == Spec => []SinRepetidos
<1>1. IInv => SinRepetidos
  BY DEF IInv
<1>2. QED
  BY <1>1, Invariante, PTL

\* aplicar_cursor and LIMIT tamanio + 1: when the last page has been given, so has every
\* row that met the filters all along.
THEOREM NadaSeOmite == Spec => []SinOmisiones
<1>1. IInv => SinOmisiones
  BY DEF IInv
<1>2. QED
  BY <1>1, Invariante, PTL

----------------------------------------------------------------------------
(* Lists with an offset, when no two rows tie *)

SinEmpates == \A f, g \in Firme : fila[f].marca = fila[g].marca => f = g

\* The rows of s that come before f; in the list, how many they are.
Mayores(s, f) == {g \in s : AntesDeSalto(g, f)}
Puesto(f) == Cardinality(Mayores(Elegidas, f))

Salto == IF cursor = Nada THEN 0 ELSE cursor

\* The rows that were given and that new ones have pushed behind the offset.
Sobra == {f \in Dadas \cap Elegidas : Puesto(f) >= Salto}

\* A row is pushed behind the offset by each one that comes, and repeated at most once for it.
Empujadas == Cardinality(Repetidas) + Cardinality(Sobra) <= llegadas
PorDarDetras == estables # Nada => \A f \in estables \ Dadas : Puesto(f) >= Salto
Dado == paso = "fin" => estables \subseteq Dadas

Desvio == lista \in Saltos /\ SinEmpates => Empujadas /\ PorDarDetras /\ Dado

\* A report that PostgreSQL refuses gives no page.
SeDa == lista \in Saltos /\ Nombra \subseteq ColumnasDeProceso
Negada == lista \in Saltos /\ ~SeDa => Dadas = {} /\ paso # "fin" /\ cursor = Nada
Vacia == estables = Nada => Dadas = {}

DInv == Desvio /\ Negada /\ Vacia

\* The first n rows of s in their order.
DeSalto(s, n) == Primeras(s, n, AntesDeSalto)

\* The first n rows of a set are those with fewer than n before them.
LEMMA PrimerasPorPuesto ==
    ASSUME TypeOK, SinEmpates, NEW s \in SUBSET Firme, NEW n \in Nat,
           NEW q \in DeSalto(s, n)
    PROVE  q \subseteq s /\ \A f \in s : f \in q <=> Cardinality(Mayores(s, f)) < n
<1>1. /\ q \subseteq s /\ \A f \in q, g \in s \ q : ~AntesDeSalto(g, f)
      /\ Cardinality(q) = IF Cardinality(s) < n THEN Cardinality(s) ELSE n
  BY DEF DeSalto, Primeras
<1>2. s \in SUBSET Filas /\ q \in SUBSET Filas
  BY <1>1 DEF Firme
<1>3. /\ IsFiniteSet(s) /\ Cardinality(s) \in Nat
      /\ IsFiniteSet(q) /\ Cardinality(q) \in Nat
  BY <1>2, ElegidasFinitas
<1>4. \A f \in s : fila[f].marca \in Nat
  BY <1>2, Constantes DEF TypeOK, Fila
<1>5. ASSUME NEW f \in q PROVE Cardinality(Mayores(s, f)) < n
  <2>1. Mayores(s, f) \in SUBSET (q \ {f})
    <3>1. ASSUME NEW h \in Mayores(s, f) PROVE h \in q \ {f}
      <4>1. h \in s /\ AntesDeSalto(h, f)
        BY DEF Mayores
      <4>2. h # f
        <5>1. fila[f].marca \in Nat /\ fila[h].marca > fila[f].marca
          BY <1>1, <1>4, <4>1 DEF AntesDeSalto
        <5>2. QED
          BY <5>1
      <4>3. h \in q
        BY <1>1, <4>1
      <4>4. QED
        BY <4>2, <4>3
    <3>2. QED
      BY <3>1
  <2>2. IsFiniteSet(q \ {f}) /\ Cardinality(q \ {f}) = Cardinality(q) - 1
    BY <1>3, FS_RemoveElement
  <2>3. Cardinality(Mayores(s, f)) <= Cardinality(q) - 1
    BY <2>1, <2>2, FS_Subset
  <2>4. Cardinality(Mayores(s, f)) \in Nat
    BY <2>1, <2>2, FS_Subset, FS_CardinalityType
  <2>5. QED
    BY <1>1, <1>3, <2>3, <2>4
<1>6. ASSUME NEW f \in s \ q PROVE Cardinality(Mayores(s, f)) >= n
  <2>1. q \in SUBSET Mayores(s, f)
    <3>1. ASSUME NEW h \in q PROVE h \in Mayores(s, f)
      <4>1. h \in s /\ h # f /\ fila[h].marca \in Nat /\ fila[f].marca \in Nat
        BY <1>1, <1>4, <1>6
      <4>2. fila[h].marca # fila[f].marca
        BY <4>1 DEF SinEmpates
      <4>3. ~(fila[f].marca > fila[h].marca)
        BY <1>1, <1>6 DEF AntesDeSalto
      <4>4. fila[h].marca > fila[f].marca
        BY <4>1, <4>2, <4>3
      <4>5. AntesDeSalto(h, f)
        BY <4>4 DEF AntesDeSalto
      <4>6. QED
        BY <4>1, <4>5 DEF Mayores
    <3>2. QED
      BY <3>1
  <2>2. Mayores(s, f) \in SUBSET Filas
    BY <1>2 DEF Mayores
  <2>3. IsFiniteSet(Mayores(s, f)) /\ Cardinality(Mayores(s, f)) \in Nat
    BY <2>2, ElegidasFinitas
  <2>4. Cardinality(q) <= Cardinality(Mayores(s, f))
    BY <2>1, <2>3, FS_Subset
  <2>5. Cardinality(q) # Cardinality(s)
    BY <1>1, <1>3, <1>6, FS_Subset
  <2>6. QED
    BY <1>1, <1>3, <2>3, <2>4, <2>5
<1>7. \A f \in s : Cardinality(Mayores(s, f)) \in Nat
  <2>1. \A f \in s : Mayores(s, f) \in SUBSET Filas
    BY <1>2 DEF Mayores
  <2>2. QED
    BY <2>1, ElegidasFinitas
<1>8. QED
  BY <1>1, <1>5, <1>6, <1>7

\* A page after the first n rows is, with them, the first n + t.
LEMMA PrimerasSeguidas ==
    ASSUME TypeOK, Elegidas \in SUBSET Filas, Salto \in Nat,
           NEW a \in DeSalto(Elegidas, Salto), NEW p \in DeSalto(Elegidas \ a, Tamanio)
    PROVE  /\ a \cup p \in DeSalto(Elegidas, Salto + Tamanio)
           /\ a \subseteq Elegidas
           /\ p \subseteq Elegidas \ a
<1> DEFINE s == Elegidas
           n == Salto
           t == Tamanio
           u == Salto + Tamanio
<1>0. s \in SUBSET Filas /\ n \in Nat /\ t \in Nat /\ u \in Nat /\ u = n + t
  BY Constantes
<1>1. /\ a \subseteq s /\ \A f \in a, g \in s \ a : ~AntesDeSalto(g, f)
      /\ Cardinality(a) = IF Cardinality(s) < n THEN Cardinality(s) ELSE n
  BY DEF DeSalto, Primeras
<1>2. /\ p \subseteq s \ a /\ \A f \in p, g \in (s \ a) \ p : ~AntesDeSalto(g, f)
      /\ Cardinality(p) = IF Cardinality(s \ a) < t THEN Cardinality(s \ a) ELSE t
  BY DEF DeSalto, Primeras
<1>3. /\ IsFiniteSet(s) /\ Cardinality(s) \in Nat /\ IsFiniteSet(a) /\ Cardinality(a) \in Nat
      /\ IsFiniteSet(p) /\ Cardinality(p) \in Nat
      /\ IsFiniteSet(s \ a) /\ Cardinality(s \ a) \in Nat
  <2>1. a \in SUBSET Filas /\ p \in SUBSET Filas /\ s \ a \in SUBSET Filas
    BY <1>1, <1>2
  <2>2. QED
    BY <2>1, ElegidasFinitas
<1>4. Cardinality(a \cup p) = Cardinality(a) + Cardinality(p)
  <2>1. a \cap p = {}
    BY <1>2
  <2>2. Cardinality(a \cup p) = Cardinality(a) + Cardinality(p) - Cardinality(a \cap p)
    BY <1>3, FS_Union
  <2>3. Cardinality(a \cap p) = 0
    BY <2>1, FS_EmptySet
  <2>4. QED
    BY <2>2, <2>3, <1>3
<1>5. Cardinality(s) = Cardinality(a) + Cardinality(s \ a)
  <2>1. a \cap (s \ a) = {} /\ a \cup (s \ a) = s
    BY <1>1
  <2>2. Cardinality(a \cup (s \ a)) = Cardinality(a) + Cardinality(s \ a) - Cardinality({})
    BY <2>1, <1>3, FS_Union
  <2>3. Cardinality({}) = 0 /\ Cardinality(a \cup (s \ a)) = Cardinality(s)
    BY <2>1, FS_EmptySet, Zenon
  <2>4. QED
    BY <2>2, <2>3, <1>3
<1>6. Cardinality(a \cup p) = IF Cardinality(s) < u THEN Cardinality(s) ELSE u
  <2> HIDE DEF s, n, t, u
  <2>1. Cardinality(a) = IF Cardinality(s) < n THEN Cardinality(s) ELSE n
    BY <1>1
  <2>2. Cardinality(p) = IF Cardinality(s \ a) < t THEN Cardinality(s \ a) ELSE t
    BY <1>2
  <2>3. QED
    BY <1>0, <1>3, <1>4, <1>5, <2>1, <2>2
<1>7. \A f \in a \cup p, g \in s \ (a \cup p) : ~AntesDeSalto(g, f)
  BY <1>1, <1>2
<1>8. QED
  BY <1>1, <1>2, <1>6, <1>7 DEF DeSalto, Primeras

\* The places of the list are numbers, and no two rows have the same.
LEMMA PuestoUnico ==
    ASSUME TypeOK
    PROVE  /\ Elegidas \subseteq Firme /\ Elegidas \subseteq Filas
           /\ \A f \in Filas : Puesto(f) \in Nat /\ IsFiniteSet(Mayores(Elegidas, f))
           /\ SinEmpates => \A f, g \in Elegidas : Puesto(f) = Puesto(g) => f = g
<1>1. Elegidas \subseteq Firme /\ Elegidas \subseteq Filas
  BY ElegidasFirmes DEF Firme
<1>2. ASSUME NEW f \in Filas PROVE Puesto(f) \in Nat /\ IsFiniteSet(Mayores(Elegidas, f))
  <2>1. Mayores(Elegidas, f) \in SUBSET Filas
    BY <1>1 DEF Mayores
  <2>2. QED
    BY <2>1, ElegidasFinitas DEF Puesto
<1>3. ASSUME NEW f \in Elegidas, NEW g \in Elegidas, AntesDeSalto(f, g)
      PROVE  Puesto(f) < Puesto(g)
  <2>1. \A h \in Elegidas : fila[h].marca \in Nat
    BY <1>1, Constantes DEF TypeOK, Fila
  <2>2. Mayores(Elegidas, f) \cup {f} \in SUBSET Mayores(Elegidas, g) /\ f \notin Mayores(Elegidas, f)
    BY <2>1, <1>3 DEF Mayores, AntesDeSalto
  <2>3. IsFiniteSet(Mayores(Elegidas, f)) /\ IsFiniteSet(Mayores(Elegidas, g))
    BY <1>1, <1>2
  <2>4. Cardinality(Mayores(Elegidas, f) \cup {f}) = Puesto(f) + 1
    BY <2>2, <2>3, FS_AddElement DEF Puesto
  <2>5. Puesto(f) + 1 <= Puesto(g)
    BY <2>2, <2>3, <2>4, FS_Subset DEF Puesto
  <2>6. QED
    BY <1>1, <1>2, <2>5
<1>4. ASSUME SinEmpates, NEW f \in Elegidas, NEW g \in Elegidas, Puesto(f) = Puesto(g)
      PROVE  f = g
  <2>1. fila[f].marca \in Nat /\ fila[g].marca \in Nat
    BY <1>1, Constantes DEF TypeOK, Fila
  <2>2. Puesto(f) \in Nat /\ Puesto(g) \in Nat
    BY <1>1, <1>2
  <2>3. ~AntesDeSalto(f, g) /\ ~AntesDeSalto(g, f)
    BY <1>3, <1>4, <2>2
  <2>4. QED
    BY <1>1, <1>4, <2>1, <2>3 DEF AntesDeSalto, SinEmpates
<1>5. QED
  BY <1>1, <1>2, <1>4

\* The lists with an offset that give pages select by what a row never changes, except that
\* completed processes leave with time, the oldest first.
LEMMA ListasQueSeDan ==
    ASSUME SeDa
    PROVE  /\ lista \in PorNombre \cup {"movimientos"} =>
                Elegidas = {f \in Firme : DelGrupo(f)}
           /\ lista \notin PorNombre \cup {"movimientos"} =>
                lista = "completados" /\ Elegidas = {f \in Firme : ~fila[f].vencido}
<1>1. lista \in PorNombre \cup {"movimientos", "completados"}
  BY DEF SeDa, Saltos, Nombra, ColumnasDeProceso
<1>2. QED
  BY <1>1 DEF PorNombre, Elegidas, Insumos, Movimientos, Cierres, Organismos, Empresas, Completados

\* A step of the table leaves the list as it is, adds a row at any place of it, or takes
\* its last row away.
LEMMA ListaCambia ==
    ASSUME TypeOK, DeLaTabla, SeDa
    PROVE  \/ Elegidas' = Elegidas
           \/ \E a \in Filas \ Firme : Elegidas' = Elegidas \cup {a}
           \/ \E f \in Elegidas : /\ Elegidas' = Elegidas \ {f}
                                 /\ \A g \in Elegidas : ~AntesDeSalto(f, g)
<1>1. lista' = lista /\ filtro' = filtro /\ SeDa'
  BY FirmeQueda DEF SeDa, Nombra
<1> DEFINE Entra(f) == IF lista = "completados" THEN ~fila[f].vencido ELSE DelGrupo(f)
<1>2. Elegidas = {f \in Firme : Entra(f)}
  BY ListasQueSeDan DEF PorNombre
<1>3. Elegidas' = {f \in Firme' : Entra(f)'}
  <2>1. lista \in PorNombre \cup {"movimientos"} => Elegidas' = {f \in Firme' : DelGrupo(f)'}
    <3>1. lista' \in PorNombre \cup {"movimientos"} => Elegidas' = {f \in Firme' : DelGrupo(f)'}
      BY <1>1 DEF PorNombre, Elegidas, Insumos, Movimientos, Cierres, Organismos, Empresas
    <3>2. QED
      BY <1>1, <3>1
  <2>2. lista = "completados" => Elegidas' = {f \in Firme' : ~fila'[f].vencido}
    BY <1>1 DEF Elegidas, Completados
  <2>3. lista \in PorNombre \cup {"movimientos", "completados"}
    BY ListasQueSeDan
  <2>4. QED
    BY <1>1, <2>1, <2>2, <2>3 DEF PorNombre
<1>4. PICK f \in Filas : Escribir(f) \/ Asentar(f) \/ Cambiar(f) \/ Vencer(f)
  BY DEF DeLaTabla
<1>5. \A g \in Filas \ {f} : fila'[g] = fila[g]
  BY <1>4 DEF Escribir, Asentar, Cambiar, Vencer, TypeOK
<1>6. \A g \in Filas \ {f} : (g \in Firme' <=> g \in Firme) /\ (Entra(g)' <=> Entra(g))
  BY <1>1, <1>5 DEF Firme, DelGrupo
<1>7. CASE f \in Firme
  <2>1. Vencer(f)
    BY <1>4, <1>7, ListasQueSeDan DEF Escribir, Asentar, Cambiar, Firme, PorNombre
  <2>2. lista = "completados"
    BY <2>1, ListasQueSeDan DEF Vencer, PorNombre
  <2>3. f \in Elegidas /\ fila' = [fila EXCEPT ![f].vencido = TRUE]
    BY <1>2, <2>1, <2>2 DEF Vencer
  <2>4. fila'[f].vencido
    BY <2>3 DEF TypeOK, Fila
  <2>5. Elegidas' = Elegidas \ {f}
    BY <1>1, <1>2, <1>3, <1>6, <2>2, <2>4 DEF Firme
  <2>6. ASSUME NEW g \in Elegidas PROVE ~AntesDeSalto(f, g)
    <3>1. g \in Firme /\ ~fila[g].vencido /\ fila[f].marca \in Nat /\ fila[g].marca \in Nat
      BY <1>2, <2>2, Constantes DEF Firme, TypeOK, Fila
    <3>2. ~(fila[g].marca < fila[f].marca)
      BY <2>1, <2>2, <3>1 DEF Vencer
    <3>3. QED
      BY <3>1, <3>2 DEF AntesDeSalto
  <2>7. QED
    BY <2>3, <2>5, <2>6
<1>8. CASE f \notin Firme
  <2>1. f \notin Elegidas
    BY <1>2, <1>8
  <2>2. Elegidas' \ {f} = Elegidas
    BY <1>2, <1>3, <1>6, <2>1 DEF Firme
  <2>3. QED
    BY <1>8, <2>2
<1>9. QED
  BY <1>7, <1>8

\* Before a page is given there is nothing to repeat.
LEMMA NadaDado ==
    ASSUME TypeOK, Dadas = {}
    PROVE  Repetidas = {} /\ Sobra = {} /\ (llegadas \in Nat => Empujadas)
<1>1. \A f \in Filas : veces[f] = 0
  BY DEF TypeOK, Dadas
<1>2. ASSUME NEW d \in Repetidas PROVE FALSE
  <2>1. d[1] \in Filas /\ d[2] \in 2..2 * Cardinality(Filas) /\ d[2] <= veces[d[1]]
    BY DEF Repetidas
  <2>2. d[2] <= 0 /\ d[2] >= 2 /\ d[2] \in Int
    <3>1. Cardinality(Filas) \in Nat
      BY Constantes, FS_CardinalityType
    <3>2. QED
      BY <1>1, <2>1, <3>1
  <2>3. QED
    BY <2>2
<1>3. Sobra = {} /\ Repetidas = {}
  BY <1>2 DEF Sobra
<1>4. QED
  BY <1>3, FS_EmptySet DEF Empujadas

\* The rows behind the offset and the repetitions are finitely many.
LEMMA Finitas ==
    ASSUME TypeOK
    PROVE  /\ IsFiniteSet(Sobra) /\ Cardinality(Sobra) \in Nat /\ Sobra \subseteq Filas
           /\ IsFiniteSet(Repetidas) /\ Cardinality(Repetidas) \in Nat
           /\ IsFiniteSet(Filas \X (2..2 * Cardinality(Filas)))
<1>1. Sobra \in SUBSET Filas
  BY DEF Sobra, Dadas
<1>2. IsFiniteSet(Filas \X (2..2 * Cardinality(Filas)))
  <2>1. Cardinality(Filas) \in Nat
    BY Constantes, FS_CardinalityType
  <2>2. IsFiniteSet(2..2 * Cardinality(Filas))
    BY <2>1, FS_Interval
  <2>3. QED
    BY <2>2, Constantes, FS_Product
<1>3. Repetidas \in SUBSET (Filas \X (2..2 * Cardinality(Filas)))
  BY DEF Repetidas
<1>4. IsFiniteSet(Repetidas) /\ Cardinality(Repetidas) \in Nat
  BY <1>2, <1>3, FS_Subset, FS_CardinalityType
<1>5. QED
  BY <1>1, <1>2, <1>4, ElegidasFinitas

\* A row that comes pushes at most one row behind the offset; one that leaves, none.
LEMMA Empuje ==
    ASSUME IInv, DInv, DeLaTabla, SeDa, SinEmpates', estables # Nada
    PROVE  Empujadas' /\ PorDarDetras'
<1>1. /\ TypeOK /\ TypeOK' /\ Anotado /\ lista \in Saltos /\ lista \notin Cursores
      /\ \A f \in Firme : f \in Firme' /\ fila'[f].marca = fila[f].marca
      /\ UNCHANGED <<lista, cursor, veces>>
  BY FirmeQueda, PasoTabla DEF IInv, SeDa, Saltos, Cursores, PorNombre
<1>2. SinEmpates
  BY <1>1 DEF SinEmpates
<1>3. Empujadas /\ PorDarDetras
  BY <1>1, <1>2 DEF DInv, Desvio
<1>4. /\ Elegidas \subseteq Firme /\ Elegidas \subseteq Filas /\ Elegidas' \subseteq Filas
      /\ \A f \in Filas : /\ Puesto(f) \in Nat /\ Puesto(f)' \in Nat
                         /\ IsFiniteSet(Mayores(Elegidas, f))
                         /\ IsFiniteSet(Mayores(Elegidas, f)')
      /\ \A f, g \in Elegidas : Puesto(f) = Puesto(g) => f = g
  <2>1. Elegidas' \in SUBSET Filas
    BY <1>1, ListaDespues
  <2>2. ASSUME NEW f \in Filas PROVE Puesto(f)' \in Nat /\ IsFiniteSet(Mayores(Elegidas, f)')
    <3>1. Mayores(Elegidas, f)' \in SUBSET Filas
      BY <2>1 DEF Mayores
    <3>2. QED
      BY <1>1, <3>1, ElegidasFinitas DEF Puesto
  <2>3. QED
    BY <1>1, <1>2, <2>1, <2>2, PuestoUnico
<1>5. Dadas' = Dadas /\ Repetidas' = Repetidas /\ Salto' = Salto /\ Dadas \subseteq Firme
  BY <1>1 DEF Dadas, Repetidas, Salto, IInv, DadasFirmes
<1>6. llegadas \in Nat /\ Salto \in Nat
  BY <1>1 DEF TypeOK, Salto
<1>7. /\ estables' = estables \cap Elegidas' /\ estables \subseteq Elegidas
      /\ llegadas' = llegadas + Cardinality(Elegidas' \ Elegidas)
  BY <1>1 DEF Anotado, IInv, EstablesElegidas
<1>8. /\ IsFiniteSet(Sobra) /\ Cardinality(Sobra) \in Nat /\ Sobra \subseteq Filas
      /\ Cardinality(Repetidas) \in Nat
  BY <1>1, Finitas
<1>9. ASSUME NEW n \in Nat, Cardinality(Elegidas' \ Elegidas) = n,
             Cardinality(Sobra') <= Cardinality(Sobra) + n, Cardinality(Sobra') \in Nat
      PROVE  Empujadas'
  <2>1. Cardinality(Repetidas) + Cardinality(Sobra) <= llegadas
    BY <1>3 DEF Empujadas
  <2>2. Cardinality(Repetidas) + Cardinality(Sobra') <= llegadas + n
    BY <1>6, <1>8, <1>9, <2>1
  <2>3. QED
    BY <1>5, <1>7, <1>9, <2>2 DEF Empujadas
<1>10. ASSUME \A f \in Elegidas \cap Elegidas' : Puesto(f)' >= Puesto(f)
       PROVE  PorDarDetras'
  <2>1. ASSUME NEW f \in estables' \ Dadas' PROVE Puesto(f)' >= Salto'
    <3>1. f \in estables \ Dadas /\ f \in Elegidas \cap Elegidas' /\ f \in Filas
      BY <1>4, <1>5, <1>7
    <3>2. Puesto(f) >= Salto
      BY <1>3, <3>1 DEF PorDarDetras
    <3>3. Puesto(f)' >= Puesto(f) /\ Puesto(f) \in Nat /\ Puesto(f)' \in Nat
      BY <1>4, <1>10, <3>1
    <3>4. QED
      BY <1>5, <1>6, <3>2, <3>3
  <2>2. QED
    BY <2>1 DEF PorDarDetras
<1>11. ASSUME Elegidas' \subseteq Elegidas, \A f \in Elegidas' : Puesto(f)' = Puesto(f)
       PROVE  Empujadas' /\ PorDarDetras'
  <2>1. Cardinality(Elegidas' \ Elegidas) = 0
    <3>1. Elegidas' \ Elegidas = {}
      BY <1>11
    <3>2. QED
      BY <3>1, FS_EmptySet
  <2>2. Sobra' \in SUBSET Sobra
    BY <1>5, <1>11 DEF Sobra
  <2>3. Cardinality(Sobra') <= Cardinality(Sobra) + 0 /\ Cardinality(Sobra') \in Nat
    BY <1>8, <2>2, FS_Subset, FS_CardinalityType
  <2>4. \A f \in Elegidas \cap Elegidas' : Puesto(f)' >= Puesto(f)
    BY <1>4, <1>11
  <2>5. QED
    BY <1>9, <1>10, <2>1, <2>3, <2>4
<1>12. CASE Elegidas' = Elegidas
  <2>1. ASSUME NEW f \in Elegidas PROVE Puesto(f)' = Puesto(f)
    BY <1>1, <1>4, <1>12 DEF Puesto, Mayores, AntesDeSalto
  <2>2. QED
    BY <1>11, <1>12, <2>1
<1>13. ASSUME NEW f \in Elegidas, Elegidas' = Elegidas \ {f},
              \A g \in Elegidas : ~AntesDeSalto(f, g)
       PROVE  Empujadas' /\ PorDarDetras'
  <2>1. ASSUME NEW g \in Elegidas \ {f} PROVE Puesto(g)' = Puesto(g)
    <3>1. \A h \in Elegidas : AntesDeSalto(h, g)' <=> AntesDeSalto(h, g)
      BY <1>1, <1>4 DEF AntesDeSalto
    <3>2. Mayores(Elegidas, g)' = Mayores(Elegidas, g)
      BY <1>13, <3>1 DEF Mayores
    <3>3. QED
      BY <3>2 DEF Puesto
  <2>2. QED
    BY <1>11, <1>13, <2>1
<1>14. ASSUME NEW a \in Filas \ Firme, Elegidas' = Elegidas \cup {a}
       PROVE  Empujadas' /\ PorDarDetras'
  <2>1. a \notin Elegidas /\ a \notin Dadas
    BY <1>4, <1>5, <1>14
  <2>2. Cardinality(Elegidas' \ Elegidas) = 1
    <3>1. Elegidas' \ Elegidas = {a}
      BY <1>14, <2>1
    <3>2. QED
      BY <3>1, FS_Singleton
  <2>3. ASSUME NEW f \in Elegidas
        PROVE  Puesto(f)' >= Puesto(f) /\ Puesto(f)' <= Puesto(f) + 1
    <3>1. \A h \in Elegidas : AntesDeSalto(h, f)' <=> AntesDeSalto(h, f)
      BY <1>1, <1>4 DEF AntesDeSalto
    <3>2. /\ Mayores(Elegidas, f) \in SUBSET Mayores(Elegidas, f)'
          /\ Mayores(Elegidas, f)' \in SUBSET (Mayores(Elegidas, f) \cup {a})
      BY <1>14, <3>1 DEF Mayores
    <3>3. IsFiniteSet(Mayores(Elegidas, f)) /\ IsFiniteSet(Mayores(Elegidas, f)') /\ a \notin Mayores(Elegidas, f)
      BY <1>4, <2>1 DEF Mayores
    <3>4. /\ IsFiniteSet(Mayores(Elegidas, f) \cup {a})
          /\ Cardinality(Mayores(Elegidas, f) \cup {a}) = Puesto(f) + 1
      BY <3>3, FS_AddElement DEF Puesto
    <3>5. QED
      BY <3>2, <3>3, <3>4, FS_Subset DEF Puesto
  <2>4. Sobra' \ Sobra \subseteq {f \in Elegidas : Puesto(f) + 1 = Salto}
    <3>1. ASSUME NEW f \in Sobra', f \notin Sobra PROVE f \in Elegidas /\ Puesto(f) + 1 = Salto
      <4>1. f \in Dadas /\ f \in Elegidas' /\ Puesto(f)' >= Salto
        BY <1>5, <3>1 DEF Sobra
      <4>2. f \in Elegidas /\ f \in Filas
        BY <1>4, <1>14, <2>1, <4>1
      <4>3. ~(Puesto(f) >= Salto)
        BY <3>1, <4>1, <4>2 DEF Sobra
      <4>4. Puesto(f) \in Nat /\ Puesto(f)' \in Nat /\ Puesto(f)' <= Puesto(f) + 1
        BY <1>4, <2>3, <4>2
      <4>5. QED
        BY <1>6, <4>1, <4>2, <4>3, <4>4
    <3>2. QED
      BY <3>1
  <2>5. \A f, g \in Sobra' \ Sobra : f = g
    <3>1. ASSUME NEW f \in Sobra' \ Sobra, NEW g \in Sobra' \ Sobra PROVE f = g
      <4>1. /\ f \in Elegidas /\ g \in Elegidas /\ Puesto(f) + 1 = Salto /\ Puesto(g) + 1 = Salto
            /\ Puesto(f) \in Nat /\ Puesto(g) \in Nat
        BY <1>4, <2>4
      <4>2. QED
        BY <1>4, <1>6, <4>1
    <3>2. QED
      BY <3>1
  <2>6. \E x : Sobra' \in SUBSET (Sobra \cup {x})
    BY <2>5
  <2>7. PICK x : Sobra' \in SUBSET (Sobra \cup {x})
    BY <2>6
  <2>8. IsFiniteSet(Sobra \cup {x}) /\ Cardinality(Sobra \cup {x}) <= Cardinality(Sobra) + 1
    <3>1. /\ IsFiniteSet(Sobra \cup {x})
          /\ Cardinality(Sobra \cup {x}) = IF x \in Sobra THEN Cardinality(Sobra)
                                          ELSE Cardinality(Sobra) + 1
      BY <1>8, FS_AddElement
    <3>2. QED
      BY <1>8, <3>1
  <2>9. IsFiniteSet(Sobra') /\ Cardinality(Sobra') <= Cardinality(Sobra \cup {x})
    BY <2>7, <2>8, FS_Subset
  <2>10. Cardinality(Sobra') <= Cardinality(Sobra) + 1 /\ Cardinality(Sobra') \in Nat
    <3>1. Cardinality(Sobra') \in Nat /\ Cardinality(Sobra \cup {x}) \in Nat
      BY <2>8, <2>9, FS_CardinalityType
    <3>2. QED
      BY <1>8, <2>8, <2>9, <3>1
  <2>11. \A f \in Elegidas \cap Elegidas' : Puesto(f)' >= Puesto(f)
    BY <2>3
  <2>12. QED
    BY <1>9, <1>10, <2>2, <2>10, <2>11
<1>15. QED
  BY <1>1, <1>12, <1>13, <1>14, ListaCambia

\* A page repeats only rows that had been pushed behind the offset, and takes them from
\* there; a page that is not full is the end of the list.
LEMMA PaginaDesvio ==
    ASSUME IInv, DInv, PedirSalto, SinEmpates
    PROVE  Empujadas' /\ PorDarDetras' /\ Dado'
<1>1. PICK antes \in DeSalto(Elegidas, Salto) :
        \E p \in DeSalto(Elegidas \ antes, Tamanio) :
            /\ Dar(p)
            /\ cursor' = Salto + Tamanio
            /\ paso' = IF \/ Cardinality(p) < Tamanio
                          \/ lista = "completados" /\ Elegidas = antes \cup p
                       THEN "fin" ELSE "pide"
  BY DEF PedirSalto, Salto, DeSalto
<1>2. PICK p \in DeSalto(Elegidas \ antes, Tamanio) :
            /\ Dar(p)
            /\ cursor' = Salto + Tamanio
            /\ paso' = IF \/ Cardinality(p) < Tamanio
                          \/ lista = "completados" /\ Elegidas = antes \cup p
                       THEN "fin" ELSE "pide"
  BY <1>1
<1> DEFINE n == Salto
           m == Salto + Tamanio
<1>3. /\ lista \in Saltos /\ SeDa /\ Empezada /\ paso = "pide" /\ lista \notin Cursores
      /\ UNCHANGED <<lista, filtro, fila, reloj, total>>
  BY DEF PedirSalto, SeDa, Saltos, PorNombre, Cursores
<1>4. TypeOK /\ Empujadas /\ PorDarDetras /\ llegadas \in Nat
  BY <1>3 DEF IInv, DInv, Desvio, TypeOK
<1>5. n \in Nat /\ m \in Nat /\ m >= n /\ Salto' = m
  <2>1. n \in Nat
    BY <1>3, <1>4 DEF Salto, TypeOK
  <2>2. m \in Nat /\ m >= n
    BY <2>1, Constantes
  <2>3. Salto' = m
    BY <1>2, <2>2, Constantes DEF Salto
  <2>4. QED
    BY <2>1, <2>2, <2>3
<1> HIDE DEF n, m
<1>6. /\ estables' # Nada /\ estables' \subseteq Elegidas /\ Elegidas' = Elegidas
      /\ Elegidas \subseteq Firme /\ llegadas' = llegadas
  BY <1>3, Comienzo
<1>7. \A f \in Filas : Puesto(f) \in Nat /\ Puesto(f)' = Puesto(f)
  <2>1. \A f \in Filas : Mayores(Elegidas, f)' = Mayores(Elegidas, f)
    BY <1>3, <1>6 DEF Mayores, AntesDeSalto
  <2>2. QED
    BY <1>4, <2>1, PuestoUnico DEF Puesto
<1>8. /\ antes \cup p \in DeSalto(Elegidas, m)
      /\ antes \subseteq Elegidas /\ p \subseteq Elegidas \ antes /\ Elegidas \in SUBSET Filas
  <2>1. Elegidas \in SUBSET Filas /\ Tamanio \in Nat /\ Salto \in Nat
    BY <1>5, <1>6, Constantes DEF Firme, n
  <2>2. /\ antes \cup p \in DeSalto(Elegidas, m)
        /\ antes \subseteq Elegidas /\ p \subseteq Elegidas \ antes
    <3>1. TypeOK
      BY <1>4
    <3>2. QED
      BY <2>1, <3>1, PrimerasSeguidas DEF m
  <2>3. QED
    BY <2>1, <2>2
<1>9. \A f \in Elegidas : (f \in antes <=> Puesto(f) < n) /\ (f \in antes \cup p <=> Puesto(f) < m)
  <2>1. Salto = n
    BY DEF n
  <2>2. QED
    BY <1>4, <1>5, <1>6, <1>8, <2>1, PrimerasPorPuesto DEF Puesto
<1>10. \A f \in Elegidas : f \in p <=> Puesto(f) >= n /\ Puesto(f) < m
  BY <1>5, <1>7, <1>8, <1>9
<1>11. /\ Dadas' = Dadas \cup p /\ p \subseteq Filas
       /\ \A f \in Filas : veces[f] \in Nat /\ veces'[f] = IF f \in p THEN veces[f] + 1 ELSE veces[f]
  <2>1. \A f \in Filas : veces[f] \in Nat /\ veces'[f] = IF f \in p THEN veces[f] + 1 ELSE veces[f]
    BY <1>2, <1>4 DEF Dar, TypeOK
  <2>2. \A f \in Filas : veces'[f] > 0 <=> veces[f] > 0 \/ f \in p
    BY <2>1
  <2>3. p \subseteq Filas
    BY <1>8
  <2>4. QED
    BY <2>1, <2>2, <2>3 DEF Dadas
<1> DEFINE otra == p \cap Dadas
           par == [f \in Filas |-> <<f, veces[f] + 1>>]
           Otras == {par[f] : f \in otra}
<1>12. Repetidas' \subseteq Repetidas \cup Otras
  <2>1. ASSUME NEW d \in Repetidas', d \notin Repetidas PROVE d \in Otras
    <3>1. /\ d \in Filas \X (2..2 * Cardinality(Filas)) /\ d[2] <= veces'[d[1]]
          /\ ~(d[2] <= veces[d[1]])
      BY <2>1 DEF Repetidas
    <3>2. d[1] \in Filas /\ d[2] \in Nat /\ d[2] >= 2 /\ d = <<d[1], d[2]>>
      <4>1. Cardinality(Filas) \in Nat
        BY Constantes, FS_CardinalityType
      <4>2. QED
        BY <3>1, <4>1
    <3>3. d[1] \in p /\ d[2] = veces[d[1]] + 1 /\ veces[d[1]] > 0
      BY <1>11, <3>1, <3>2
    <3>4. d[1] \in otra /\ d = par[d[1]]
      BY <3>2, <3>3 DEF Dadas
    <3>5. QED
      BY <3>4
  <2>2. QED
    BY <2>1
<1>13. otra \subseteq Sobra /\ Sobra' \subseteq Sobra \ p
  <2>1. otra \subseteq Sobra
    BY <1>8, <1>10 DEF Sobra, n
  <2>2. ASSUME NEW f \in Sobra' PROVE f \in Sobra \ p
    <3>1. f \in Dadas \cup p /\ f \in Elegidas /\ Puesto(f)' >= m /\ f \in Filas
      BY <1>5, <1>6, <1>8, <1>11 DEF Sobra
    <3>2. Puesto(f) >= m /\ Puesto(f) >= n /\ ~(Puesto(f) < m)
      BY <1>5, <1>7, <3>1
    <3>3. QED
      BY <1>10, <3>1, <3>2 DEF Sobra, n
  <2>3. QED
    BY <2>1, <2>2
<1>14. /\ IsFiniteSet(Sobra) /\ Cardinality(Sobra) \in Nat
       /\ IsFiniteSet(Repetidas) /\ Cardinality(Repetidas) \in Nat
  BY <1>4, Finitas
<1>15. /\ IsFiniteSet(otra) /\ Cardinality(otra) \in Nat
       /\ IsFiniteSet(Otras) /\ Cardinality(Otras) = Cardinality(otra)
  <2>1. IsFiniteSet(otra) /\ Cardinality(otra) \in Nat /\ otra \subseteq Filas
    BY <1>11, <1>13, <1>14, FS_Subset, FS_CardinalityType
  <2>2. \A f, g \in otra : par[f] = par[g] => f = g
    BY <2>1
  <2> HIDE DEF otra, par
  <2>3. QED
    BY <2>1, <2>2, ImagenInyectiva
<1>16. Cardinality(Sobra') + Cardinality(otra) <= Cardinality(Sobra) /\ Cardinality(Sobra') \in Nat
  <2> DEFINE u == Sobra' \cup otra
  <2>1. u \in SUBSET Sobra /\ Sobra' \in SUBSET Sobra /\ Sobra' \cap otra = {}
    BY <1>13
  <2>2. IsFiniteSet(Sobra') /\ Cardinality(Sobra') \in Nat
    BY <1>14, <2>1, FS_Subset, FS_CardinalityType
  <2>3. Cardinality(u) = Cardinality(Sobra') + Cardinality(otra) - Cardinality(Sobra' \cap otra)
    BY <1>15, <2>2, FS_Union
  <2>4. Cardinality(Sobra' \cap otra) = 0
    BY <2>1, FS_EmptySet
  <2>5. Cardinality(u) <= Cardinality(Sobra)
    BY <1>14, <2>1, FS_Subset
  <2>6. QED
    BY <1>14, <1>15, <2>2, <2>3, <2>4, <2>5
<1>17. Cardinality(Repetidas') <= Cardinality(Repetidas) + Cardinality(otra) /\ Cardinality(Repetidas') \in Nat
  <2> HIDE DEF Otras, otra
  <2>1. /\ IsFiniteSet(Repetidas \cup Otras)
        /\ Cardinality(Repetidas \cup Otras) =
              Cardinality(Repetidas) + Cardinality(Otras) - Cardinality(Repetidas \cap Otras)
    BY <1>14, <1>15, FS_Union
  <2>2. Cardinality(Repetidas \cap Otras) \in Nat
    BY <1>14, FS_Subset, FS_CardinalityType
  <2>3. /\ IsFiniteSet(Repetidas') /\ Cardinality(Repetidas') <= Cardinality(Repetidas \cup Otras)
    BY <1>12, <2>1, FS_Subset
  <2>4. Cardinality(Repetidas') \in Nat /\ Cardinality(Repetidas \cup Otras) \in Nat
    BY <2>1, <2>3, FS_CardinalityType
  <2>5. QED
    BY <1>14, <1>15, <2>1, <2>2, <2>3, <2>4
<1>18. Empujadas'
  <2>1. Cardinality(Repetidas) + Cardinality(Sobra) <= llegadas
    BY <1>4 DEF Empujadas
  <2>2. Cardinality(Repetidas') + Cardinality(Sobra') <= llegadas
    BY <1>4, <1>14, <1>15, <1>16, <1>17, <2>1
  <2>3. QED
    BY <1>6, <2>2 DEF Empujadas
<1>19. ASSUME NEW f \in estables', f \notin Dadas
       PROVE  f \in Elegidas /\ f \in Filas /\ Puesto(f) >= n /\ Puesto(f) \in Nat
  <2>1. f \in Elegidas /\ f \in Filas /\ Puesto(f) \in Nat
    BY <1>6, <1>7, <1>8
  <2>2. CASE estables = Nada
    <3>1. n = 0
      BY <2>2 DEF IInv, Empieza, n, Salto
    <3>2. QED
      BY <2>1, <3>1
  <2>3. CASE estables # Nada
    BY <1>3, <1>4, <1>19, <2>1, <2>3 DEF PorDarDetras, Empezada, n
  <2>4. QED
    BY <2>2, <2>3, <2>1
<1>20. PorDarDetras'
  <2>1. ASSUME NEW f \in estables' \ Dadas' PROVE Puesto(f)' >= Salto'
    <3>1. f \in Elegidas /\ f \in Filas /\ Puesto(f) >= n /\ Puesto(f) \in Nat /\ f \notin p
      BY <1>11, <1>19
    <3>2. ~(Puesto(f) < m)
      BY <1>10, <3>1
    <3>3. QED
      BY <1>5, <1>7, <3>1, <3>2
  <2>2. QED
    BY <2>1 DEF PorDarDetras
<1>21. Dado'
  <2> SUFFICES ASSUME paso' = "fin", NEW f \in estables', f \notin Dadas' PROVE FALSE
    BY DEF Dado
  <2>1. f \in Elegidas /\ f \notin p /\ Puesto(f) >= n /\ Puesto(f) \in Nat
    BY <1>11, <1>19
  <2>2. f \notin antes
    BY <1>5, <1>9, <2>1
  <2>3. Cardinality(p) < Tamanio
    BY <1>2, <2>1, <2>2
  <2>4. /\ Cardinality(p) = IF Cardinality(Elegidas \ antes) < Tamanio
                           THEN Cardinality(Elegidas \ antes) ELSE Tamanio
    BY <1>8 DEF DeSalto, Primeras
  <2>5. Cardinality(p) = Cardinality(Elegidas \ antes) /\ IsFiniteSet(Elegidas \ antes)
    BY <1>4, <1>8, <2>3, <2>4, Constantes, ElegidasFinitas
  <2>6. p = Elegidas \ antes
    BY <1>8, <2>5, FS_Subset
  <2>7. QED
    BY <2>1, <2>2, <2>6
<1>22. QED
  BY <1>18, <1>20, <1>21

\* The bound holds before the first query.
LEMMA InitDesvio == Init => DInv
<1> SUFFICES ASSUME Init PROVE DInv
  OBVIOUS
<1>1. TypeOK /\ Dadas = {}
  BY InitInv DEF IInv, Init, Dadas
<1>2. QED
  BY <1>1, NadaDado DEF DInv, Desvio, Negada, Vacia, PorDarDetras, Dado, Init

\* Every step keeps it.
LEMMA NextDesvio == IInv /\ DInv /\ [Next]_vars => DInv'
<1> SUFFICES ASSUME IInv, DInv, [Next]_vars PROVE DInv'
  OBVIOUS
<1>1. TypeOK /\ IInv' /\ TypeOK'
  BY NextInv DEF IInv
<1>2. ASSUME UNCHANGED <<lista, filtro, fila, cursor, veces, llegadas>>,
             estables' = estables \/ (estables = Nada /\ Dadas = {} /\ cursor = Nada),
             paso' = paso \/ paso' = "error",
             estables' = Nada \/ estables' \subseteq Filas
      PROVE  DInv'
  <2>1. Elegidas' = Elegidas /\ Firme' = Firme /\ Dadas' = Dadas /\ Repetidas' = Repetidas
    BY <1>2, ElegidasIguales DEF Firme, Dadas, Repetidas
  <2>2. \A f \in Filas : Puesto(f)' = Puesto(f) /\ Puesto(f) \in Nat
    <3>1. \A f \in Filas : Mayores(Elegidas, f)' = Mayores(Elegidas, f)
      BY <1>2, <2>1 DEF Mayores, AntesDeSalto
    <3>2. QED
      BY <1>1, <3>1, PuestoUnico DEF Puesto
  <2>3. Salto' = Salto /\ SinEmpates' = SinEmpates /\ SeDa' = SeDa
    BY <1>2, <2>1 DEF Salto, SinEmpates, SeDa, Nombra
  <2>4. Sobra' = Sobra
    BY <2>1, <2>2, <2>3 DEF Sobra, Dadas
  <2>5. Negada' /\ Vacia'
    BY <1>2, <2>1, <2>3 DEF DInv, Negada, Vacia
  <2>6. Desvio'
    <3> SUFFICES ASSUME lista \in Saltos, SinEmpates PROVE Empujadas' /\ PorDarDetras' /\ Dado'
      BY <1>2, <2>3 DEF Desvio
    <3>1. Empujadas /\ PorDarDetras /\ Dado
      BY DEF DInv, Desvio
    <3>2. Empujadas'
      BY <1>2, <2>1, <2>4, <3>1 DEF Empujadas
    <3>3. CASE estables' = estables
      <4>1. estables \subseteq Filas \/ estables = Nada
        BY <1>1 DEF TypeOK
      <4>2. QED
        BY <1>2, <2>1, <2>2, <2>3, <3>1, <3>2, <3>3, <4>1 DEF PorDarDetras, Dado
    <3>4. CASE estables = Nada /\ Dadas = {} /\ cursor = Nada
      <4>1. Salto = 0 /\ paso # "fin" /\ paso' # "fin"
        BY <1>2, <3>4 DEF Salto, IInv, Empieza
      <4>2. PorDarDetras'
        BY <1>2, <2>2, <2>3, <4>1 DEF PorDarDetras
      <4>3. QED
        BY <3>2, <4>1, <4>2 DEF Dado
    <3>5. QED
      BY <1>2, <3>3, <3>4
  <2>7. QED
    BY <2>5, <2>6 DEF DInv
<1>3. estables = Nada => Dadas = {} /\ cursor = Nada
  BY DEF DInv, Vacia, IInv, Empieza
<1>4. CASE UNCHANGED vars \/ Tic \/ Contar \/ Rechazar
  <2>1. /\ UNCHANGED <<lista, filtro, fila, cursor, veces, llegadas>>
        /\ paso' = paso \/ paso' = "error"
        /\ estables' = estables \/ estables = Nada
    BY <1>4 DEF vars, Tic, Contar, Rechazar, Empezada
  <2>2. estables' = Nada \/ estables' \subseteq Filas
    BY <1>1 DEF TypeOK
  <2>3. estables' = estables \/ (estables = Nada /\ Dadas = {} /\ cursor = Nada)
    BY <1>3, <2>1
  <2>4. UNCHANGED <<lista, filtro, fila, cursor, veces, llegadas>>
    BY <2>1
  <2>5. paso' = paso \/ paso' = "error"
    BY <2>1
  <2>6. QED
    BY <1>2, <2>2, <2>3, <2>4, <2>5
<1>5. CASE PedirTrasCursor
  <2>1. lista' \notin Saltos /\ estables' # Nada
    BY <1>5, Comienzo DEF PedirTrasCursor, Cursores, Saltos, PorNombre
  <2>2. QED
    BY <2>1 DEF DInv, Desvio, Negada, Vacia
<1>6. CASE PedirSalto
  <2>1. UNCHANGED <<lista, fila>> /\ estables' # Nada /\ SeDa /\ lista \in Saltos
    BY <1>6, Comienzo DEF PedirSalto, SeDa
  <2>2. SinEmpates' = SinEmpates /\ SeDa'
    BY <2>1 DEF SinEmpates, Firme, SeDa, Nombra
  <2>3. QED
    BY <1>6, <2>1, <2>2, PaginaDesvio DEF DInv, Desvio, Negada, Vacia
<1>7. CASE DeLaTabla
  <2>1. /\ Anotado /\ paso = "pide" /\ UNCHANGED <<lista, filtro, paso, cursor, veces>>
        /\ Dadas' = Dadas
    BY <1>1, <1>7, FirmeQueda DEF Dadas
  <2>2. SeDa' = SeDa
    BY <2>1 DEF SeDa, Nombra
  <2>3. estables = Nada <=> estables' = Nada
    <3>1. Elegidas' \in SUBSET Filas
      BY <1>1, <1>7, ListaDespues
    <3>2. estables = Nada \/ estables \cap Elegidas' \in SUBSET Filas
      BY <3>1
    <3>3. QED
      BY <2>1, <3>2, Constantes DEF Anotado
  <2>4. Negada' /\ Vacia'
    BY <2>1, <2>2, <2>3 DEF DInv, Negada, Vacia
  <2>5. Desvio'
    <3> SUFFICES ASSUME lista' \in Saltos, SinEmpates' PROVE Empujadas' /\ PorDarDetras' /\ Dado'
      BY DEF Desvio
    <3>1. Dado' /\ lista \in Saltos
      BY <2>1 DEF Dado
    <3>2. CASE SeDa /\ estables # Nada
      BY <1>7, <3>1, <3>2, Empuje
    <3>3. CASE ~(SeDa /\ estables # Nada)
      <4>1. Dadas = {} /\ cursor = Nada
        BY <1>3, <3>1, <3>3 DEF DInv, Negada
      <4>2. Repetidas' = {} /\ Sobra' = {} /\ llegadas' \in Nat
        <5>1. Dadas' = {} /\ veces' = veces
          BY <2>1, <4>1
        <5>2. Repetidas' = Repetidas
          BY <5>1 DEF Repetidas
        <5>3. QED
          BY <1>1, <4>1, <5>1, <5>2, NadaDado DEF Sobra, TypeOK
      <4>3. Empujadas'
        BY <4>2, FS_EmptySet DEF Empujadas
      <4>4. PorDarDetras'
        <5>1. ASSUME NEW f \in estables', estables' # Nada PROVE Puesto(f)' >= Salto'
          <6>1. f \in Filas /\ Mayores(Elegidas, f)' \in SUBSET Filas
            BY <1>1, <1>7, <5>1, ListaDespues DEF Mayores, TypeOK
          <6>2. Puesto(f)' \in Nat
            BY <1>1, <6>1, ElegidasFinitas DEF Puesto
          <6>3. Salto' = 0
            BY <2>1, <4>1 DEF Salto
          <6>4. QED
            BY <6>2, <6>3
        <5>2. QED
          BY <5>1 DEF PorDarDetras
      <4>5. QED
        BY <3>1, <4>3, <4>4
    <3>4. QED
      BY <3>2, <3>3
  <2>6. QED
    BY <2>4, <2>5 DEF DInv
<1>8. QED
  BY <1>4, <1>5, <1>6, <1>7 DEF Next, DelCliente

\* OFFSET and LIMIT over rows that come and go: as many repetitions as rows that came, and
\* nothing left out, as long as no two rows tie and only the oldest leave.
THEOREM SaltoAcotado == Spec => []DesvioAcotado
<1>1. IInv /\ DInv => DesvioAcotado
  <2> SUFFICES ASSUME IInv, DInv, lista \in Saltos, SinEmpates
               PROVE  Cardinality(Repetidas) <= llegadas /\ Dado
    BY DEF DesvioAcotado, SinEmpates, Dado
  <2>1. Cardinality(Repetidas) + Cardinality(Sobra) <= llegadas /\ Dado /\ llegadas \in Nat
    BY DEF DInv, Desvio, Empujadas, IInv, TypeOK
  <2>2. Cardinality(Repetidas) \in Nat /\ Cardinality(Sobra) \in Nat
    BY Finitas DEF IInv
  <2>3. QED
    BY <2>1, <2>2
<1>2. QED
  BY <1>1, Invariante, InitDesvio, NextDesvio, PTL DEF Spec
=============================================================================
