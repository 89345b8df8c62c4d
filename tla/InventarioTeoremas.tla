-------------------------- MODULE InventarioTeoremas --------------------------
(* What Inventario guarantees for any number of locations, movements and
   concurrent requests. *)
EXTENDS Inventario, FiniteSetsExt, FiniteSetTheorems, WellFoundedInduction, TLAPS

----------------------------------------------------------------------------
(* Sets of naturals: the library states induction with an operator as a parameter,
   which no installed prover instantiates, and WFMin takes its place *)

\* A set of naturals that is not empty has a least element.
LEMMA MinimoNat ==
    ASSUME NEW S, S \subseteq Nat, S # {}
    PROVE  \E n \in S : \A k \in S : n <= k
<1>1. PICK n \in S : \A k \in S : <<k, n>> \notin OpToRel(<, Nat)
  BY WFMin, NatLessThanWellFounded
<1>2. ASSUME NEW k \in S PROVE n <= k
  <2>1. <<k, n>> \notin OpToRel(<, Nat)
    BY <1>1
  <2>2. ~(k < n)
    BY <2>1 DEF OpToRel
  <2>3. QED
    BY <2>2
<1>3. QED
  BY <1>2

\* A finite one has a greatest element: take a subset without one with as few
\* elements as possible, and take an element out of it.
LEMMA MaximoNat ==
    ASSUME NEW S, S \subseteq Nat, IsFiniteSet(S), S # {}
    PROVE  \E n \in S : \A k \in S : k <= n
<1> DEFINE Malo(T) == T # {} /\ ~ \E n \in T : \A k \in T : k <= n
           C == {c \in Nat : \E T \in SUBSET S : Malo(T) /\ Cardinality(T) = c}
<1>1. SUFFICES ASSUME Malo(S) PROVE FALSE
  OBVIOUS
<1>2. Cardinality(S) \in C
  BY <1>1, FS_CardinalityType
<1>3. PICK c \in C : \A d \in C : c <= d
  <2> HIDE DEF C
  <2> C \subseteq Nat
    BY DEF C
  <2> QED
    BY <1>2, MinimoNat
<1>4. PICK T \in SUBSET S : Malo(T) /\ Cardinality(T) = c
  BY <1>3
<1>5. PICK x \in T : TRUE
  BY <1>4
<1> DEFINE U == T \ {x}
<1>6. IsFiniteSet(T) /\ IsFiniteSet(U) /\ Cardinality(U) = c - 1 /\ c \in Nat
  BY <1>4, <1>5, FS_Subset, FS_RemoveElement
<1>6a. c >= 1 /\ Cardinality(U) \in Nat
  BY <1>4, <1>6, FS_CardinalityType
<1>7. ~Malo(U)
  <2>1. Malo(U) => Cardinality(U) \in C
     BY <1>4, <1>6a
  <2> HIDE DEF Malo, C
  <2>2. QED
    BY <2>1, <1>6, <1>3
<1>8. CASE U = {}
  <2>1. T = {x}
    BY <1>8, <1>5
  <2>2. x <= x
    BY <1>4, <1>5
  <2>3. QED
    BY <2>1, <2>2, <1>4
<1>9. CASE U # {}
  <2>1. PICK n \in U : \A k \in U : k <= n
    BY <1>7, <1>9
  <2>2. T \subseteq Nat /\ n \in T /\ n \in Nat /\ x \in Nat
    BY <1>4, <1>5
  <2>3. CASE x <= n
    BY <2>1, <2>2, <2>3, <1>4
  <2>4. CASE n <= x
    <3>1. \A k \in T : k <= x
      BY <2>1, <2>2, <2>4
    <3>2. QED
      BY <3>1, <1>4, <1>5
  <2>5. QED
    BY <2>2, <2>3, <2>4
<1>10. QED
  BY <1>8, <1>9

\* Max of the community modules is the greatest element.
LEMMA MaxNat ==
    ASSUME NEW S, S \subseteq Nat, IsFiniteSet(S), S # {}
    PROVE  Max(S) \in S /\ \A k \in S : k <= Max(S)
<1>1. \E n \in S : \A k \in S : n >= k
  BY MaximoNat
<1>2. QED
  BY <1>1 DEF Max

\* Min of the community modules is the least element.
LEMMA MinNat ==
    ASSUME NEW S, S \subseteq Nat, S # {}
    PROVE  Min(S) \in S /\ \A k \in S : Min(S) <= k
<1>1. \E n \in S : \A k \in S : n <= k
  BY MinimoNat
<1>2. QED
  BY <1>1 DEF Min

\* The values of a function on a finite set are finitely many.
LEMMA ImagenFinita ==
    ASSUME NEW S, IsFiniteSet(S), NEW f
    PROVE  IsFiniteSet({f[x] : x \in S})
<1> DEFINE T == {f[x] : x \in S}
           g == [x \in S |-> f[x]]
<1>1. g \in Surjection(S, T)
  BY DEF Surjection
<1> HIDE DEF g, T
<1>2. IsFiniteSet(T)
  BY <1>1, FS_Surjection
<1>3. QED
  BY <1>2 DEF T

----------------------------------------------------------------------------
(* The inductive invariant *)

Pedido(w) == {pet[w].fila.origen, pet[w].fila.destino} \ {Nada}

\* What a request knows at each step.
FormaPeticion(w) ==
    /\ pet[w].paso \in {"libre", "ultimo", "origen", "destino"} => pet[w].escrito = {}
    /\ pet[w].paso # "libre" => /\ pet[w].mov \in Movimientos
                                /\ mov[pet[w].mov].sello = 0
                                /\ pet[w].fila.destino \in Ubicaciones
    /\ pet[w].paso \in {"libre", "ultimo", "origen"} =>
         pet[w].nuevo = SinLeer /\ pet[w].leido = SinLeer
    /\ pet[w].paso = "origen" => pet[w].fila.origen \in Ubicaciones
    /\ pet[w].paso = "libre" => pet[w].mov = Nada
Forma == \A w \in Peticiones : FormaPeticion(w)

\* No two requests register the same movement.
MovimientosPropios ==
    \A w, v \in Peticiones : pet[w].mov = pet[v].mov /\ pet[w].mov # Nada => w = v

\* The arithmetic of _actualizar_stock, before and after the destination.
Aritmetica(w) ==
    /\ pet[w].paso = "destino" => \A u \in Ubicaciones :
         IF u = pet[w].fila.origen
         THEN /\ pet[w].leido[u] # Nada /\ pet[w].nuevo[u] # Nada
              /\ pet[w].nuevo[u] + pet[w].fila.cant = pet[w].leido[u]
         ELSE pet[w].nuevo[u] = Nada /\ pet[w].leido[u] = Nada
    /\ pet[w].paso \in {"escribir", "commit"} => \A u \in Ubicaciones :
         /\ pet[w].nuevo[u] # Nada <=> u \in Pedido(w)
         /\ pet[w].nuevo[u] = Nada => pet[w].leido[u] = Nada
         /\ Cuanto(pet[w].nuevo[u]) + (IF pet[w].fila.origen = u THEN pet[w].fila.cant ELSE 0)
              = Cuanto(pet[w].leido[u])
                  + (IF pet[w].fila.destino = u THEN pet[w].fila.cant ELSE 0)
Cuentas == \A w \in Peticiones : Aritmetica(w)

\* The flush has written what comes first, and all of it when it ends.
OrdenDelFlush ==
    \A w \in Peticiones :
        /\ \A u \in pet[w].escrito : pet[w].nuevo[u] # Nada
        /\ \A e \in pet[w].escrito, u \in PorActualizar(w) : e < u
        /\ pet[w].paso = "commit" => Pendientes(w) = {}

\* The movement a request is about to register follows the one it has read.
Sellado(w) ==
    /\ pet[w].paso \in {"origen", "destino", "escribir", "commit"} =>
         /\ pet[w].fila.sello # 0
         /\ pet[w].fila.anterior # Nada =>
              /\ pet[w].fila.anterior \in Registrados
              /\ mov[pet[w].fila.anterior].sello < pet[w].fila.sello
Sellos == \A w \in Peticiones : Sellado(w)

Tipo == TypeOK /\ Forma
IInv == Tipo /\ MovimientosPropios /\ Cuentas /\ OrdenDelFlush /\ Sellos /\ CadenaHaciaAtras

----------------------------------------------------------------------------
(* Types *)

\* An empty parking lot satisfies the invariant.
LEMMA InitInv == Init => IInv
<1> SUFFICES ASSUME Init PROVE IInv
  OBVIOUS
<1> USE ConstantesInventario DEF Init, PeticionLibre, MovimientoAusente
<1>1. MovimientoAusente \in Movimiento /\ SinLeer \in [Ubicaciones -> Existencia]
  BY DEF Movimiento, SinLeer, Existencia
<1>2. PeticionLibre \in Peticion
  BY <1>1 DEF Peticion, Pasos
<1>3. Tipo
  BY <1>1, <1>2 DEF Tipo, TypeOK, Forma, FormaPeticion
<1>4. MovimientosPropios /\ Cuentas /\ Sellos
  BY DEF MovimientosPropios, Cuentas, Aritmetica, Sellos, Sellado
<1>5. OrdenDelFlush
  BY DEF OrdenDelFlush
<1>6. CadenaHaciaAtras
  BY DEF CadenaHaciaAtras, Registrados
<1>7. QED
  BY <1>3, <1>4, <1>5, <1>6 DEF IInv

\* Replacing the request of one slot by a well-formed one keeps the types.
LEMMA TipoAlCambiarPeticion ==
    ASSUME Tipo, NEW w \in Peticiones, NEW q \in Peticion,
           pet' = [pet EXCEPT ![w] = q], SinFilas, FormaPeticion(w)'
    PROVE  Tipo'
<1>1. \A v \in Peticiones : pet'[v] = IF v = w THEN q ELSE pet[v]
  BY DEF Tipo, TypeOK
<1>2. TypeOK'
  BY DEF Tipo, TypeOK, SinFilas
<1>3. \A v \in Peticiones : v # w => FormaPeticion(v)'
  BY <1>1 DEF Tipo, Forma, FormaPeticion, SinFilas
<1>4. QED
  BY <1>2, <1>3 DEF Tipo, Forma

\* Ending a request, with an answer or a ROLLBACK, keeps the types.
LEMMA TerminarTipo ==
    ASSUME Tipo, NEW w \in Peticiones, Terminar(w), SinFilas
    PROVE  Tipo'
<1>1. PeticionLibre \in Peticion
  BY DEF PeticionLibre, Peticion, Pasos, MovimientoAusente, Movimiento, SinLeer, Existencia
<1>2. pet'[w] = PeticionLibre
  BY DEF Terminar, Tipo, TypeOK
<1>3. FormaPeticion(w)'
  BY <1>2 DEF FormaPeticion, PeticionLibre
<1>4. QED
  BY <1>1, <1>3, TipoAlCambiarPeticion DEF Terminar

\* The clock gives a natural number later than every movement it has stamped.
LEMMA AhoraPosterior ==
    ASSUME TypeOK
    PROVE  /\ Ahora \in Nat \ {0}
           /\ \A m \in Movimientos : mov[m].sello < Ahora
<1> DEFINE S == {mov[m].sello : m \in Movimientos}
           P == {pet[w].fila.sello : w \in Peticiones}
           T == {0} \cup S \cup P
<1>1. IsFiniteSet(S)
  <2> DEFINE f == [m \in Movimientos |-> mov[m].sello]
  <2>1. S = {f[m] : m \in Movimientos}
    OBVIOUS
  <2> HIDE DEF f, S
  <2>2. QED
    BY <2>1, ImagenFinita, ConstantesInventario
<1>2. IsFiniteSet(P)
  <2> DEFINE f == [w \in Peticiones |-> pet[w].fila.sello]
  <2>1. P = {f[w] : w \in Peticiones}
    OBVIOUS
  <2> HIDE DEF f, P
  <2>2. QED
    BY <2>1, ImagenFinita, ConstantesInventario
<1>3. IsFiniteSet(T)
  BY <1>1, <1>2, FS_Singleton, FS_Union
<1>4. T \subseteq Nat
  BY DEF TypeOK, Movimiento, Peticion
<1>5. Max(T) \in T /\ \A k \in T : k <= Max(T)
  <2> HIDE DEF T
  <2>1. T # {}
    BY DEF T
  <2>2. QED
    BY <1>3, <1>4, <2>1, MaxNat
<1>6. Ahora = 1 + Max(T)
  BY DEF Ahora
<1>7. \A m \in Movimientos : mov[m].sello \in T
  OBVIOUS
<1> HIDE DEF T
<1>8. Max(T) \in Nat /\ \A m \in Movimientos : mov[m].sello \in Nat /\ mov[m].sello <= Max(T)
  BY <1>4, <1>5, <1>7
<1>9. QED
  BY <1>6, <1>8

\* A new request has read nothing.
LEMMA PedirTipo ==
    ASSUME Tipo, NEW w \in Peticiones, Llegar(w)
    PROVE  Tipo'
<1>1. PICK m \in Movimientos, o \in Ubicaciones \cup {Nada}, d \in Ubicaciones,
           c \in Cantidad : Pedir(w, m, o, d, c)
  BY DEF Llegar
<1> DEFINE f == [MovimientoAusente EXCEPT !.origen = o, !.destino = d, !.cant = c]
           q == [PeticionLibre EXCEPT !.paso = "ultimo", !.mov = m, !.fila = f]
<1>2. c \in Nat
  BY ConstantesInventario DEF Cantidad
<1>3. f \in Movimiento
  BY <1>2 DEF MovimientoAusente, Movimiento
<1>4. q \in Peticion
  BY <1>3 DEF PeticionLibre, Peticion, Pasos, SinLeer, Existencia
<1>5. pet' = [pet EXCEPT ![w] = q] /\ SinFilas /\ mov[m].sello = 0
  BY <1>1 DEF Pedir
<1>6. pet'[w] = q
  BY <1>5 DEF Tipo, TypeOK
<1>7. /\ q.paso = "ultimo" /\ q.mov = m /\ q.fila.destino = d /\ q.escrito = {}
      /\ q.nuevo = SinLeer /\ q.leido = SinLeer
  BY DEF PeticionLibre, MovimientoAusente
<1> HIDE DEF q
<1>8. FormaPeticion(w)'
  BY <1>5, <1>6, <1>7 DEF FormaPeticion, SinFilas
<1>9. QED
  BY <1>4, <1>5, <1>8, TipoAlCambiarPeticion

\* Reading the last movement stamps the new one with a natural number.
LEMMA ConsultarUltimoTipo ==
    ASSUME Tipo, NEW w \in Peticiones, ConsultarUltimo(w)
    PROVE  Tipo'
<1>1. PICK a \in Movimientos \cup {Nada} :
        pet' = [pet EXCEPT ![w].fila.anterior = a, ![w].fila.sello = Ahora,
                           ![w].paso = Primero(w)]
  BY DEF ConsultarUltimo
<1> DEFINE q == [pet[w] EXCEPT !.fila.anterior = a, !.fila.sello = Ahora,
                               !.paso = Primero(w)]
<1>2. pet[w] \in Peticion /\ Ahora \in Nat /\ pet[w].paso = "ultimo" /\ FormaPeticion(w)
  BY AhoraPosterior DEF Tipo, TypeOK, ConsultarUltimo, Forma
<1>3. q \in Peticion
  BY <1>2 DEF Peticion, Movimiento, Primero, Pasos
<1>4. pet' = [pet EXCEPT ![w] = q] /\ SinFilas
  <2>1. pet' = [pet EXCEPT ![w] = q]
    BY <1>1
  <2>2. QED
    BY <2>1 DEF ConsultarUltimo
<1>5. pet'[w] = q
  BY <1>4 DEF Tipo, TypeOK
<1>6. FormaPeticion(w)'
  BY <1>2, <1>4, <1>5 DEF FormaPeticion, Peticion, Movimiento, Primero, SinFilas
<1>7. QED
  BY <1>3, <1>4, <1>6, TipoAlCambiarPeticion

\* Taking from the origin leaves a natural number: less than what there is.
LEMMA ConsultarOrigenTipo ==
    ASSUME Tipo, NEW w \in Peticiones, ConsultarOrigen(w)
    PROVE  Tipo'
<1> DEFINE o == pet[w].fila.origen
           c == pet[w].fila.cant
           q == [pet[w] EXCEPT !.leido[o] = stock[o], !.nuevo[o] = stock[o] - c,
                               !.paso = "destino"]
<1>1. pet[w] \in Peticion /\ pet[w].paso = "origen" /\ FormaPeticion(w) /\ SinFilas
  BY DEF Tipo, TypeOK, ConsultarOrigen, Forma
<1>2. CASE Terminar(w)
  BY <1>1, <1>2, TerminarTipo
<1>3. CASE stock[o] # Nada /\ ~(stock[o] < c) /\ pet' = [pet EXCEPT ![w] = q]
  <2>1. stock[o] \in Nat /\ c \in Nat /\ o \in Ubicaciones
    BY <1>1, <1>3 DEF Tipo, TypeOK, FormaPeticion, Existencia, Peticion, Movimiento
  <2>2. stock[o] - c \in Nat
    BY <2>1, <1>3
  <2>3. q \in Peticion
    BY <1>1, <2>1, <2>2 DEF Peticion, Pasos, Existencia
  <2>4. pet'[w] = q
    BY <1>3 DEF Tipo, TypeOK
  <2>5. FormaPeticion(w)'
    BY <1>1, <2>4 DEF FormaPeticion, Peticion, SinFilas
  <2>6. QED
    BY <1>1, <1>3, <2>3, <2>5, TipoAlCambiarPeticion
<1>4. QED
  <2>1. pet' = [pet EXCEPT ![w].leido[o] = stock[o], ![w].nuevo[o] = stock[o] - c,
                           ![w].paso = "destino"]
        => pet' = [pet EXCEPT ![w] = q]
    OBVIOUS
  <2> HIDE DEF q
  <2>2. QED
    BY <1>2, <1>3, <2>1 DEF ConsultarOrigen

\* Giving to the destination adds to what there is, or to nothing.
LEMMA ConsultarDestinoTipo ==
    ASSUME Tipo, NEW w \in Peticiones, ConsultarDestino(w)
    PROVE  Tipo'
<1> DEFINE d == pet[w].fila.destino
           base == IF pet[w].leido[d] # Nada THEN pet[w].nuevo[d] ELSE stock[d]
           leido == IF pet[w].leido[d] # Nada THEN pet[w].leido[d] ELSE stock[d]
           suma == pet[w].fila.cant + (IF base = Nada THEN 0 ELSE base)
           q == [pet[w] EXCEPT !.leido[d] = leido, !.nuevo[d] = suma, !.paso = "escribir"]
<1>1. pet[w] \in Peticion /\ pet[w].paso = "destino" /\ FormaPeticion(w) /\ SinFilas
  BY DEF Tipo, TypeOK, ConsultarDestino, Forma
<1>2. d \in Ubicaciones /\ pet[w].fila.cant \in Nat
  BY <1>1 DEF FormaPeticion, Peticion, Movimiento
<1>3. base \in Existencia /\ leido \in Existencia
  BY <1>1, <1>2 DEF Tipo, TypeOK, Peticion
<1>4. suma \in Nat
  BY <1>2, <1>3 DEF Existencia
<1>5. pet' = [pet EXCEPT ![w] = q]
  BY DEF ConsultarDestino
<1> HIDE DEF base, leido, suma
<1>6. q \in Peticion
  BY <1>1, <1>3, <1>4 DEF Peticion, Pasos, Existencia
<1>7. pet'[w] = q
  BY <1>5 DEF Tipo, TypeOK
<1>8. FormaPeticion(w)'
  BY <1>1, <1>7 DEF FormaPeticion, Peticion, SinFilas
<1>9. QED
  BY <1>1, <1>5, <1>6, <1>8, TipoAlCambiarPeticion

\* What the flush writes next is one of the rows still to be written.
LEMMA SiguientePendiente ==
    ASSUME NEW w \in Peticiones
    PROVE  /\ Siguiente(w) \subseteq Pendientes(w)
           /\ PorActualizar(w) # {} =>
                \A u \in Siguiente(w) : /\ u \in PorActualizar(w)
                                        /\ \A x \in PorActualizar(w) : u <= x
<1>1. PorActualizar(w) \subseteq Nat /\ PorActualizar(w) \subseteq Pendientes(w)
  BY ConstantesInventario DEF PorActualizar, Pendientes
<1>2. CASE PorActualizar(w) = {}
  BY <1>2 DEF Siguiente
<1>3. CASE PorActualizar(w) # {}
  <2>1. /\ Min(PorActualizar(w)) \in PorActualizar(w)
        /\ \A x \in PorActualizar(w) : Min(PorActualizar(w)) <= x
    BY <1>1, <1>3, MinNat
  <2>2. QED
    BY <1>1, <1>3, <2>1 DEF Siguiente
<1>4. QED
  BY <1>2, <1>3

\* A statement of the flush takes one more row.
LEMMA EscribirTipo ==
    ASSUME Tipo, NEW w \in Peticiones, Escribir(w)
    PROVE  Tipo'
<1>1. PICK u \in Siguiente(w) :
        \/ Terminar(w)
        \/ pet' = [pet EXCEPT ![w].escrito = @ \cup {u},
                              ![w].paso = IF Pendientes(w) = {u} THEN "commit" ELSE @]
  BY DEF Escribir
<1> DEFINE q == [pet[w] EXCEPT !.escrito = @ \cup {u},
                               !.paso = IF Pendientes(w) = {u} THEN "commit" ELSE @]
<1>2. pet[w] \in Peticion /\ pet[w].paso = "escribir" /\ FormaPeticion(w) /\ SinFilas
  BY DEF Tipo, TypeOK, Escribir, Forma
<1>3. CASE Terminar(w)
  BY <1>2, <1>3, TerminarTipo
<1>4. CASE pet' = [pet EXCEPT ![w] = q]
  <2>1. u \in Ubicaciones
    BY SiguientePendiente DEF Pendientes
  <2>2. q \in Peticion
    BY <1>2, <2>1 DEF Peticion, Pasos
  <2>3. pet'[w] = q
    BY <1>4 DEF Tipo, TypeOK
  <2>4. FormaPeticion(w)'
    BY <1>2, <2>3 DEF FormaPeticion, Peticion, SinFilas
  <2>5. QED
    BY <1>2, <1>4, <2>2, <2>4, TipoAlCambiarPeticion
<1>5. pet' = [pet EXCEPT ![w].escrito = @ \cup {u},
                         ![w].paso = IF Pendientes(w) = {u} THEN "commit" ELSE @]
      => pet' = [pet EXCEPT ![w] = q]
  OBVIOUS
<1> HIDE DEF q
<1>6. QED
  BY <1>1, <1>3, <1>4, <1>5

\* A COMMIT writes natural numbers, and a movement no other request holds.
LEMMA CommitTipo ==
    ASSUME Tipo, MovimientosPropios, NEW w \in Peticiones, Commit(w)
    PROVE  Tipo'
<1>1. pet[w] \in Peticion /\ pet[w].paso = "commit" /\ FormaPeticion(w)
  BY DEF Tipo, TypeOK, Commit, Forma
<1>2. stock' \in [Ubicaciones -> Existencia]
  BY <1>1 DEF Commit, Tipo, TypeOK, Peticion
<1>3. mov' \in [Movimientos -> Movimiento]
  BY <1>1 DEF Commit, Tipo, TypeOK, Peticion, FormaPeticion
<1>4. PeticionLibre \in Peticion
  BY DEF PeticionLibre, Peticion, Pasos, MovimientoAusente, Movimiento, SinLeer, Existencia
<1>5. pet' \in [Peticiones -> Peticion] /\ pet'[w] = PeticionLibre
      /\ \A v \in Peticiones : v # w => pet'[v] = pet[v]
  BY <1>4 DEF Commit, Terminar, Tipo, TypeOK
<1>6. FormaPeticion(w)'
  BY <1>5 DEF FormaPeticion, PeticionLibre
<1>7. ASSUME NEW v \in Peticiones, v # w PROVE FormaPeticion(v)'
  <2>1. FormaPeticion(v) /\ pet'[v] = pet[v]
    BY <1>5, <1>7 DEF Tipo, Forma
  <2>2. pet[v].paso # "libre" => mov'[pet[v].mov].sello = 0
    BY <1>1, <1>7, <2>1, ConstantesInventario
       DEF MovimientosPropios, FormaPeticion, Commit, Tipo, TypeOK
  <2>3. QED
    BY <2>1, <2>2 DEF FormaPeticion
<1>8. QED
  BY <1>2, <1>3, <1>5, <1>6, <1>7 DEF Tipo, TypeOK, Forma

\* One disjunct of Next.
Paso(w) == Llegar(w) \/ Avanzar(w) \/ Rollback(w)

\* Every step keeps the types.
LEMMA PasoTipo ==
    ASSUME Tipo, MovimientosPropios, NEW w \in Peticiones, Paso(w)
    PROVE  Tipo'
<1>1. CASE Rollback(w)
  BY <1>1, TerminarTipo DEF Rollback
<1>2. QED
  BY <1>1, PedirTipo, ConsultarUltimoTipo, ConsultarOrigenTipo, ConsultarDestinoTipo,
     EscribirTipo, CommitTipo DEF Paso, Avanzar

----------------------------------------------------------------------------
(* What a step does to the slots *)

\* A step of one request leaves the others alone, and the request keeps the
\* movement it registers until it ends.
LEMMA SoloSuPeticion ==
    ASSUME TypeOK, NEW w \in Peticiones, Paso(w)
    PROVE  /\ \A v \in Peticiones : v # w => pet'[v] = pet[v]
           /\ \/ Llegar(w)
              \/ pet'[w].mov = pet[w].mov
              \/ pet'[w] = PeticionLibre
           /\ Commit(w) \/ SinFilas
<1>1. CASE Llegar(w)
  BY <1>1 DEF Llegar, Pedir, TypeOK
<1>2. CASE ConsultarUltimo(w)
  BY <1>2 DEF ConsultarUltimo, TypeOK, Peticion
<1>3. CASE ConsultarOrigen(w)
  BY <1>3 DEF ConsultarOrigen, Terminar, TypeOK, Peticion
<1>4. CASE ConsultarDestino(w)
  <2>1. pet[w] \in Peticion
    BY DEF TypeOK
  <2>2. PICK l, n : pet' = [pet EXCEPT ![w].leido[pet[w].fila.destino] = l,
                                       ![w].nuevo[pet[w].fila.destino] = n,
                                       ![w].paso = "escribir"]
    BY <1>4 DEF ConsultarDestino
  <2>3. \A v \in Peticiones : v # w => pet'[v] = pet[v]
    BY <2>2 DEF TypeOK
  <2>4. pet'[w].mov = pet[w].mov
    BY <2>1, <2>2 DEF TypeOK, Peticion
  <2>5. SinFilas
    BY <1>4 DEF ConsultarDestino
  <2>6. QED
    BY <2>3, <2>4, <2>5
<1>5. CASE Escribir(w)
  <2>1. PICK u \in Siguiente(w) :
        \/ Terminar(w)
        \/ pet' = [pet EXCEPT ![w].escrito = @ \cup {u},
                              ![w].paso = IF Pendientes(w) = {u} THEN "commit" ELSE @]
    BY <1>5 DEF Escribir
  <2>2. QED
    BY <1>5, <2>1 DEF Escribir, Terminar, TypeOK, Peticion
<1>6. CASE Commit(w)
  BY <1>6 DEF Commit, Terminar, TypeOK
<1>7. CASE Rollback(w)
  BY <1>7 DEF Rollback, Terminar, TypeOK
<1>8. QED
  BY <1>1, <1>2, <1>3, <1>4, <1>5, <1>6, <1>7 DEF Paso, Avanzar

\* A request takes a movement identifier that nobody else holds (uuid4).
LEMMA PasoMovimientosPropios ==
    ASSUME TypeOK, MovimientosPropios, NEW w \in Peticiones, Paso(w)
    PROVE  MovimientosPropios'
<1>1. \A v \in Peticiones : v # w => pet'[v] = pet[v]
  BY SoloSuPeticion
<1>2. pet'[w].mov = Nada \/ \A v \in Peticiones : v # w => pet[v].mov # pet'[w].mov
  <2>1. CASE Llegar(w)
    <3>1. PICK m \in Movimientos, o \in Ubicaciones \cup {Nada}, d \in Ubicaciones,
               c \in Cantidad : Pedir(w, m, o, d, c)
      BY <2>1 DEF Llegar
    <3>2. pet'[w].mov = m /\ \A v \in Peticiones : pet[v].mov # m
      BY <3>1 DEF Pedir, TypeOK, PeticionLibre
    <3>3. QED
      BY <3>2
  <2>2. CASE pet'[w].mov = pet[w].mov
    BY <2>2 DEF MovimientosPropios
  <2>3. CASE pet'[w] = PeticionLibre
    BY <2>3 DEF PeticionLibre
  <2>4. QED
    BY <2>1, <2>2, <2>3, SoloSuPeticion
<1>3. QED
  BY <1>1, <1>2 DEF MovimientosPropios

\* The arithmetic of a request depends on nothing another request changes.
LEMMA PasoCuentas ==
    ASSUME Tipo, Cuentas, NEW w \in Peticiones, Paso(w)
    PROVE  Cuentas'
<1>1. \A v \in Peticiones : v # w => pet'[v] = pet[v]
  BY SoloSuPeticion DEF Tipo
<1>2. SUFFICES Aritmetica(w)'
  BY <1>1 DEF Cuentas, Aritmetica, Pedido
<1>3. CASE pet'[w] = PeticionLibre
  BY <1>3 DEF PeticionLibre, Aritmetica
<1>4. CASE Llegar(w)
  <2>1. pet'[w].paso = "ultimo"
    BY <1>4 DEF Llegar, Pedir, Tipo, TypeOK, PeticionLibre
  <2>2. QED
    BY <2>1 DEF Aritmetica
<1>5. CASE ConsultarUltimo(w)
  <2>1. pet[w] \in Peticion /\ FormaPeticion(w) /\ pet[w].paso = "ultimo"
    BY <1>5 DEF Tipo, TypeOK, Forma, ConsultarUltimo
  <2>2. /\ pet'[w].leido = SinLeer /\ pet'[w].nuevo = SinLeer
        /\ pet'[w].fila.origen = pet[w].fila.origen /\ pet'[w].paso = Primero(w)
    BY <1>5, <2>1 DEF ConsultarUltimo, Tipo, TypeOK, Peticion, Movimiento, FormaPeticion
  <2>3. pet'[w].paso = "destino" => pet'[w].fila.origen = Nada
    BY <2>2 DEF Primero
  <2>4. QED
    BY <2>2, <2>3, ConstantesInventario DEF Aritmetica, SinLeer, Primero
<1>6. CASE ConsultarOrigen(w) /\ pet'[w] # PeticionLibre
  <2> DEFINE o == pet[w].fila.origen
             c == pet[w].fila.cant
  <2>1. pet[w] \in Peticion /\ FormaPeticion(w) /\ pet[w].paso = "origen"
    BY <1>6 DEF Tipo, TypeOK, Forma, ConsultarOrigen
  <2>2. /\ stock[o] # Nada /\ ~(stock[o] < c)
        /\ pet' = [pet EXCEPT ![w].leido[o] = stock[o], ![w].nuevo[o] = stock[o] - c,
                              ![w].paso = "destino"]
    BY <1>6 DEF ConsultarOrigen, Terminar, Tipo, TypeOK
  <2>3. o \in Ubicaciones /\ stock[o] \in Nat /\ c \in Nat /\ stock[o] - c \in Nat
    BY <2>1, <2>2 DEF FormaPeticion, Tipo, TypeOK, Existencia, Peticion, Movimiento
  <2>4. /\ pet'[w].paso = "destino" /\ pet'[w].fila = pet[w].fila
        /\ pet'[w].leido = [pet[w].leido EXCEPT ![o] = stock[o]]
        /\ pet'[w].nuevo = [pet[w].nuevo EXCEPT ![o] = stock[o] - c]
    BY <2>1, <2>2 DEF Tipo, TypeOK, Peticion
  <2>5. pet[w].leido = SinLeer /\ pet[w].nuevo = SinLeer
    BY <2>1 DEF FormaPeticion
  <2>6. stock[o] - c + c = stock[o] /\ stock[o] - c # Nada /\ stock[o] # Nada
    BY <2>3, ConstantesInventario
  <2>7. QED
    BY <2>3, <2>4, <2>5, <2>6 DEF Aritmetica, SinLeer
<1>7. CASE ConsultarDestino(w)
  <2> DEFINE d == pet[w].fila.destino
             o == pet[w].fila.origen
             c == pet[w].fila.cant
             base == IF pet[w].leido[d] # Nada THEN pet[w].nuevo[d] ELSE stock[d]
             leido == IF pet[w].leido[d] # Nada THEN pet[w].leido[d] ELSE stock[d]
             suma == c + (IF base = Nada THEN 0 ELSE base)
  <2>1. pet[w] \in Peticion /\ FormaPeticion(w) /\ pet[w].paso = "destino" /\ Aritmetica(w)
    BY <1>7 DEF Tipo, TypeOK, Forma, ConsultarDestino, Cuentas
  <2>2. pet' = [pet EXCEPT ![w].leido[d] = leido, ![w].nuevo[d] = suma,
                           ![w].paso = "escribir"]
    BY <1>7 DEF ConsultarDestino
  <2>3. d \in Ubicaciones /\ c \in Nat /\ o \in Ubicaciones \cup {Nada} /\ d # Nada
    BY <2>1, ConstantesInventario DEF FormaPeticion, Peticion, Movimiento
  <2>4. base \in Existencia /\ leido \in Existencia
    BY <2>1, <2>3 DEF Tipo, TypeOK, Peticion
  <2>5. suma \in Nat /\ suma # Nada /\ suma = Cuanto(base) + c
    <3> HIDE DEF base, leido, c
    <3> QED
      BY <2>3, <2>4, ConstantesInventario DEF Existencia, Cuanto
  <2>6. IF d = o THEN Cuanto(leido) = Cuanto(base) + c ELSE leido = base
    BY <2>1, <2>3, <2>4, ConstantesInventario DEF Aritmetica, Existencia, Cuanto
  <2> HIDE DEF base, leido, suma
  <2>7. /\ pet'[w].paso = "escribir" /\ pet'[w].fila = pet[w].fila
        /\ pet'[w].leido = [pet[w].leido EXCEPT ![d] = leido]
        /\ pet'[w].nuevo = [pet[w].nuevo EXCEPT ![d] = suma]
    BY <2>1, <2>2 DEF Tipo, TypeOK, Peticion
  <2>8. Pedido(w)' = {o, d} \ {Nada}
    BY <2>7 DEF Pedido
  <2>9. ASSUME NEW u \in Ubicaciones
        PROVE  /\ pet'[w].nuevo[u] # Nada <=> u \in {o, d}
               /\ pet'[w].nuevo[u] = Nada => pet'[w].leido[u] = Nada
               /\ Cuanto(pet'[w].nuevo[u]) + (IF o = u THEN c ELSE 0)
                    = Cuanto(pet'[w].leido[u]) + (IF d = u THEN c ELSE 0)
    <3>1. CASE u = d
      <4>1. pet'[w].nuevo[u] = suma /\ pet'[w].leido[u] = leido
        BY <2>1, <2>3, <2>7, <3>1 DEF Peticion
      <4>2. Cuanto(suma) = suma /\ Cuanto(leido) \in Nat /\ Cuanto(base) \in Nat
        BY <2>4, <2>5, ConstantesInventario DEF Cuanto, Existencia
      <4>3. QED
        BY <2>3, <2>5, <2>6, <3>1, <4>1, <4>2
    <3>2. CASE u # d
      <4>1. pet'[w].nuevo[u] = pet[w].nuevo[u] /\ pet'[w].leido[u] = pet[w].leido[u]
        BY <2>1, <2>7, <3>2 DEF Peticion
      <4>2. CASE u = o
        <5>1. /\ pet[w].leido[u] # Nada /\ pet[w].nuevo[u] # Nada
              /\ pet[w].nuevo[u] + c = pet[w].leido[u]
          BY <2>1, <4>2 DEF Aritmetica
        <5>2. pet[w].leido[u] \in Nat /\ pet[w].nuevo[u] \in Nat
          BY <2>1, <5>1 DEF Peticion, Existencia
        <5>3. QED
          BY <2>3, <3>2, <4>1, <4>2, <5>1, <5>2 DEF Cuanto
      <4>3. CASE u # o
        <5>1. pet[w].leido[u] = Nada /\ pet[w].nuevo[u] = Nada
          BY <2>1, <4>3 DEF Aritmetica
        <5>2. QED
          BY <3>2, <4>1, <4>3, <5>1 DEF Cuanto
      <4>4. QED
        BY <4>2, <4>3
    <3>3. QED
      BY <3>1, <3>2
  <2>10. QED
    BY <2>7, <2>8, <2>9, ConstantesInventario DEF Aritmetica
<1>8. CASE Escribir(w) /\ pet'[w] # PeticionLibre
  <2>1. pet[w] \in Peticion /\ pet[w].paso = "escribir" /\ Aritmetica(w)
    BY <1>8 DEF Tipo, TypeOK, Escribir, Cuentas
  <2>2. /\ pet'[w].leido = pet[w].leido /\ pet'[w].nuevo = pet[w].nuevo
        /\ pet'[w].fila = pet[w].fila /\ pet'[w].paso \in {"escribir", "commit"}
    BY <1>8, <2>1 DEF Escribir, Terminar, Tipo, TypeOK, Peticion
  <2>3. QED
    BY <2>1, <2>2 DEF Aritmetica, Pedido
<1>9. CASE Commit(w) \/ Rollback(w)
  BY <1>3, <1>9 DEF Commit, Rollback, Terminar, Tipo, TypeOK
<1>10. QED
  BY <1>3, <1>4, <1>5, <1>6, <1>7, <1>8, <1>9 DEF Paso, Avanzar

\* The flush keeps to the order of the key, and ends with nothing pending.
LEMMA PasoOrdenDelFlush ==
    ASSUME Tipo, OrdenDelFlush, NEW w \in Peticiones, Paso(w)
    PROVE  OrdenDelFlush'
<1> DEFINE EnOrden(v) == /\ \A u \in pet[v].escrito : pet[v].nuevo[u] # Nada
                         /\ \A e \in pet[v].escrito, u \in PorActualizar(v) : e < u
                         /\ pet[v].paso = "commit" => Pendientes(v) = {}
<1>1. \A v \in Peticiones : v # w => pet'[v] = pet[v]
  BY SoloSuPeticion DEF Tipo
<1>2. SUFFICES EnOrden(w)'
  BY <1>1 DEF OrdenDelFlush, PorActualizar, Pendientes
<1>3. CASE Escribir(w) /\ pet'[w] # PeticionLibre
  <2>1. pet[w] \in Peticion /\ pet[w].paso = "escribir" /\ EnOrden(w)
    BY <1>3 DEF Tipo, TypeOK, Escribir, OrdenDelFlush
  <2>2. PICK u \in Siguiente(w) :
          pet' = [pet EXCEPT ![w].escrito = @ \cup {u},
                             ![w].paso = IF Pendientes(w) = {u} THEN "commit" ELSE @]
    BY <1>3 DEF Escribir, Terminar, Tipo, TypeOK
  <2>3. /\ pet'[w].leido = pet[w].leido /\ pet'[w].nuevo = pet[w].nuevo
        /\ pet'[w].escrito = pet[w].escrito \cup {u}
        /\ pet'[w].paso = IF Pendientes(w) = {u} THEN "commit" ELSE "escribir"
    BY <2>1, <2>2 DEF Tipo, TypeOK, Peticion
  <2>4. u \in Pendientes(w)
    BY SiguientePendiente
  <2>5. /\ Pendientes(w)' = Pendientes(w) \ {u}
        /\ PorActualizar(w)' = PorActualizar(w) \ {u}
    BY <2>3 DEF Pendientes, PorActualizar
  <2>6. \A e \in pet'[w].escrito : pet'[w].nuevo[e] # Nada
    BY <2>1, <2>3, <2>4 DEF Pendientes
  <2>7. \A e \in pet'[w].escrito, x \in PorActualizar(w)' : e < x
    <3>1. \A x \in PorActualizar(w) \ {u} : u < x
      <4>1. PorActualizar(w) # {} => u \in PorActualizar(w) /\ \A x \in PorActualizar(w) : u <= x
        BY SiguientePendiente
      <4>2. PorActualizar(w) \subseteq Nat
        BY ConstantesInventario DEF PorActualizar, Pendientes
      <4>3. QED
        BY <4>1, <4>2
    <3>2. QED
      BY <2>1, <2>3, <2>5, <3>1
  <2>8. pet'[w].paso = "commit" => Pendientes(w)' = {}
    BY <2>3, <2>5
  <2>9. QED
    BY <2>6, <2>7, <2>8
<1>4. CASE pet'[w].escrito = {} /\ pet'[w].paso # "commit"
  BY <1>4
<1>5. QED
  <2>1. CASE pet'[w] = PeticionLibre
    BY <1>4, <2>1 DEF PeticionLibre
  <2>2. CASE Llegar(w)
    BY <1>4, <2>2 DEF Llegar, Pedir, Tipo, TypeOK, PeticionLibre
  <2>3. CASE ConsultarUltimo(w)
    <3>1. pet[w] \in Peticion /\ FormaPeticion(w) /\ pet[w].paso = "ultimo"
      BY <2>3 DEF Tipo, TypeOK, Forma, ConsultarUltimo
    <3>2. pet'[w].escrito = {} /\ pet'[w].paso = Primero(w)
      BY <2>3, <3>1 DEF ConsultarUltimo, Tipo, TypeOK, Peticion, FormaPeticion
    <3>3. QED
      BY <1>4, <3>2 DEF Primero
  <2>4. CASE ConsultarOrigen(w) /\ pet'[w] # PeticionLibre
    <3>1. pet[w] \in Peticion /\ FormaPeticion(w) /\ pet[w].paso = "origen"
      BY <2>4 DEF Tipo, TypeOK, Forma, ConsultarOrigen
    <3>2. pet'[w].escrito = {} /\ pet'[w].paso = "destino"
      BY <2>4, <3>1 DEF ConsultarOrigen, Terminar, Tipo, TypeOK, Peticion, FormaPeticion
    <3>3. QED
      BY <1>4, <3>2
  <2>5. CASE ConsultarDestino(w)
    <3>1. pet[w] \in Peticion /\ FormaPeticion(w) /\ pet[w].paso = "destino"
      BY <2>5 DEF Tipo, TypeOK, Forma, ConsultarDestino
    <3>2. PICK l, n : pet' = [pet EXCEPT ![w].leido[pet[w].fila.destino] = l,
                                         ![w].nuevo[pet[w].fila.destino] = n,
                                         ![w].paso = "escribir"]
      BY <2>5 DEF ConsultarDestino
    <3>3. pet'[w].escrito = {} /\ pet'[w].paso = "escribir"
      BY <3>1, <3>2 DEF Tipo, TypeOK, Peticion, FormaPeticion
    <3>4. QED
      BY <1>4, <3>3
  <2>6. CASE Commit(w) \/ Rollback(w)
    BY <2>1, <2>6 DEF Commit, Rollback, Terminar, Tipo, TypeOK
  <2>7. QED
    BY <1>3, <2>1, <2>2, <2>3, <2>4, <2>5, <2>6 DEF Paso, Avanzar

\* A committed movement is never written again.
LEMMA RegistradosFirmes ==
    ASSUME Tipo, NEW w \in Peticiones, Paso(w)
    PROVE  \A m \in Registrados : m \in Registrados' /\ mov'[m] = mov[m]
<1>1. CASE SinFilas
  BY <1>1 DEF SinFilas, Registrados
<1>2. CASE Commit(w)
  <2>1. mov[pet[w].mov].sello = 0 /\ mov' = [mov EXCEPT ![pet[w].mov] = pet[w].fila]
    BY <1>2 DEF Commit, Tipo, Forma, FormaPeticion
  <2>2. QED
    BY <2>1 DEF Registrados, Tipo, TypeOK
<1>3. QED
  BY <1>1, <1>2, SoloSuPeticion DEF Tipo

\* What a request has read of the log stays true until it commits.
LEMMA PasoSellos ==
    ASSUME Tipo, Sellos, NEW w \in Peticiones, Paso(w)
    PROVE  Sellos'
<1>1. \A v \in Peticiones : v # w => pet'[v] = pet[v]
  BY SoloSuPeticion DEF Tipo
<1>2. \A m \in Registrados : m \in Registrados' /\ mov'[m] = mov[m]
  BY RegistradosFirmes
<1>3. ASSUME NEW v \in Peticiones, v # w PROVE Sellado(v)'
  BY <1>1, <1>2, <1>3 DEF Sellos, Sellado
<1>4. CASE pet'[w].paso \in {"libre", "ultimo"}
  BY <1>3, <1>4 DEF Sellos, Sellado
<1>5. CASE /\ pet'[w].fila = pet[w].fila
           /\ pet[w].paso \in {"origen", "destino", "escribir", "commit"}
  BY <1>2, <1>3, <1>5 DEF Sellos, Sellado
<1>6. CASE ConsultarUltimo(w)
  <2>1. PICK a \in Movimientos \cup {Nada} :
          /\ a # Nada => a \in Registrados
          /\ pet' = [pet EXCEPT ![w].fila.anterior = a, ![w].fila.sello = Ahora,
                                ![w].paso = Primero(w)]
    BY <1>6 DEF ConsultarUltimo
  <2>2. pet'[w].fila.anterior = a /\ pet'[w].fila.sello = Ahora
    BY <2>1 DEF Tipo, TypeOK, Peticion, Movimiento
  <2>3. Ahora # 0 /\ \A m \in Movimientos : mov[m].sello < Ahora
    BY AhoraPosterior DEF Tipo
  <2>4. a # Nada => mov[a].sello < Ahora
    BY <2>1, <2>3
  <2>5. Sellado(w)'
    BY <1>2, <2>1, <2>2, <2>3, <2>4 DEF Sellado
  <2>6. QED
    BY <1>3, <2>5 DEF Sellos
<1>7. CASE pet'[w] = PeticionLibre
  BY <1>4, <1>7 DEF PeticionLibre
<1>8. QED
  <2>1. CASE Llegar(w)
    BY <1>4, <2>1 DEF Llegar, Pedir, Tipo, TypeOK, PeticionLibre
  <2>2. CASE ConsultarOrigen(w) /\ pet'[w] # PeticionLibre
    BY <1>5, <2>2 DEF ConsultarOrigen, Terminar, Tipo, TypeOK, Peticion
  <2>3. CASE ConsultarDestino(w)
    <3>1. PICK l, n : pet' = [pet EXCEPT ![w].leido[pet[w].fila.destino] = l,
                                         ![w].nuevo[pet[w].fila.destino] = n,
                                         ![w].paso = "escribir"]
      BY <2>3 DEF ConsultarDestino
    <3>2. pet[w].paso = "destino"
      BY <2>3 DEF ConsultarDestino
    <3>3. pet'[w].fila = pet[w].fila
      BY <3>1 DEF Tipo, TypeOK, Peticion
    <3>4. QED
      BY <1>5, <3>2, <3>3
  <2>4. CASE Escribir(w) /\ pet'[w] # PeticionLibre
    BY <1>5, <2>4 DEF Escribir, Terminar, Tipo, TypeOK, Peticion
  <2>5. CASE Commit(w) \/ Rollback(w)
    BY <1>7, <2>5 DEF Commit, Rollback, Terminar, Tipo, TypeOK
  <2>6. QED
    BY <1>6, <1>7, <2>1, <2>2, <2>3, <2>4, <2>5 DEF Paso, Avanzar

\* A COMMIT adds to the log a movement that follows one already there.
LEMMA PasoCadena ==
    ASSUME Tipo, Sellos, CadenaHaciaAtras, NEW w \in Peticiones, Paso(w)
    PROVE  CadenaHaciaAtras'
<1>1. CASE SinFilas
  BY <1>1 DEF SinFilas, CadenaHaciaAtras, Registrados
<1>2. CASE Commit(w)
  <2>1. \A m \in Registrados : m \in Registrados' /\ mov'[m] = mov[m]
    BY RegistradosFirmes
  <2>2. /\ pet[w].mov \in Movimientos
        /\ mov' = [mov EXCEPT ![pet[w].mov] = pet[w].fila]
    BY <1>2 DEF Commit, Tipo, Forma, FormaPeticion
  <2>3. Registrados' \subseteq Registrados \cup {pet[w].mov} /\ mov'[pet[w].mov] = pet[w].fila
    BY <2>2 DEF Tipo, TypeOK, Registrados
  <2>4. pet[w].fila.anterior # Nada =>
          /\ pet[w].fila.anterior \in Registrados
          /\ mov[pet[w].fila.anterior].sello < pet[w].fila.sello
    BY <1>2 DEF Sellos, Sellado, Commit
  <2>5. ASSUME NEW m \in Registrados', mov'[m].anterior # Nada
        PROVE  mov'[m].anterior \in Registrados' /\ mov'[mov'[m].anterior].sello < mov'[m].sello
    <3>1. CASE m \in Registrados
      BY <2>1, <2>5, <3>1 DEF CadenaHaciaAtras
    <3>2. CASE m = pet[w].mov
      BY <2>1, <2>3, <2>4, <2>5, <3>2
    <3>3. QED
      BY <2>3, <3>1, <3>2
  <2>6. QED
    BY <2>5 DEF CadenaHaciaAtras
<1>3. QED
  BY <1>1, <1>2, SoloSuPeticion DEF Tipo

\* The invariant is inductive.
LEMMA NextInv == IInv /\ [Next]_vars => IInv'
<1> SUFFICES ASSUME IInv, [Next]_vars PROVE IInv'
  OBVIOUS
<1>1. CASE UNCHANGED vars
  BY <1>1 DEF IInv, Tipo, TypeOK, Forma, FormaPeticion, MovimientosPropios, Cuentas,
     Aritmetica, Pedido, OrdenDelFlush, PorActualizar, Pendientes, Sellos, Sellado,
     Registrados, CadenaHaciaAtras, vars
<1>2. CASE Next
  <2>1. PICK w \in Peticiones : Paso(w)
    BY <1>2 DEF Next, Paso
  <2>2. QED
    BY <2>1, PasoTipo, PasoMovimientosPropios, PasoCuentas, PasoOrdenDelFlush, PasoSellos,
       PasoCadena DEF IInv, Tipo
<1>3. QED
  BY <1>1, <1>2

\* The invariant holds in every behaviour.
LEMMA Invariante == Spec => []IInv
BY InitInv, NextInv, PTL DEF Spec

----------------------------------------------------------------------------
(* Theorems *)

\* The stock, the log and every open transaction keep their types; in
\* particular the cantidad of a location never goes below zero.
THEOREM Tipos == Spec => []TypeOK
<1>1. IInv => TypeOK
  BY DEF IInv, Tipo
<1>2. QED
  BY <1>1, Invariante, PTL

\* Whatever the interleaving of registrar_movimiento, hash_anterior leads from
\* every movement to an older one that is committed.
THEOREM CadenaSegura == Spec => []CadenaHaciaAtras
<1>1. IInv => CadenaHaciaAtras
  BY DEF IInv
<1>2. QED
  BY <1>1, Invariante, PTL

\* The flush of _actualizar_stock locks rows in the order of the key: two
\* movements whose locations have their row cannot wait for each other.
THEOREM SinAbrazo == Spec => []SinAbrazoMortal
<1>1. IInv => SinAbrazoMortal
  <2> SUFFICES ASSUME IInv, NEW w \in Peticiones, NEW v \in Peticiones,
                      SoloActualiza(w), SoloActualiza(v), Espera(w, v), Espera(v, w)
               PROVE  FALSE
    BY DEF SinAbrazoMortal
  <2>1. ASSUME NEW x \in Peticiones, SoloActualiza(x)
        PROVE  PorActualizar(x) = Pendientes(x)
    BY <2>1 DEF SoloActualiza, PorActualizar, Pendientes
  <2>2. PICK a \in Siguiente(w) : a \in pet[v].escrito
    BY DEF Espera
  <2>3. PICK b \in Siguiente(v) : b \in pet[w].escrito
    BY DEF Espera
  <2>4. a \in PorActualizar(w) /\ b \in PorActualizar(v)
    BY <2>1, <2>2, <2>3, SiguientePendiente
  <2>5. a < b /\ b < a
    BY <2>2, <2>3, <2>4 DEF IInv, OrdenDelFlush
  <2>6. a \in Nat /\ b \in Nat
    BY <2>4, ConstantesInventario DEF PorActualizar, Pendientes
  <2>7. QED
    BY <2>5, <2>6
<1>2. QED
  BY <1>1, Invariante, PTL

\* The COMMIT of a movement nobody raced changes each location by what it moved.
LEMMA CommitCuadra ==
    ASSUME IInv, NEW w \in Peticiones, Commit(w), LecturaVigente(w), NEW u \in Ubicaciones
    PROVE  Cuanto(stock'[u]) + (IF pet[w].fila.origen = u THEN pet[w].fila.cant ELSE 0)
             = Cuanto(stock[u]) + (IF pet[w].fila.destino = u THEN pet[w].fila.cant ELSE 0)
<1>1. /\ pet[w].nuevo[u] # Nada <=> u \in Pedido(w)
      /\ pet[w].nuevo[u] = Nada => pet[w].leido[u] = Nada
      /\ Cuanto(pet[w].nuevo[u]) + (IF pet[w].fila.origen = u THEN pet[w].fila.cant ELSE 0)
           = Cuanto(pet[w].leido[u])
               + (IF pet[w].fila.destino = u THEN pet[w].fila.cant ELSE 0)
  BY DEF IInv, Cuentas, Aritmetica, Commit
<1>2. stock'[u] = IF u \in pet[w].escrito /\ pet[w].nuevo[u] # pet[w].leido[u]
                  THEN pet[w].nuevo[u] ELSE stock[u]
  BY DEF Commit
<1>3. u \in pet[w].escrito <=> pet[w].nuevo[u] # Nada
  BY DEF IInv, OrdenDelFlush, Pendientes, Commit
<1>4. CASE pet[w].nuevo[u] # Nada
  <2>1. pet[w].leido[u] = stock[u]
    BY <1>4 DEF LecturaVigente
  <2>2. stock'[u] = pet[w].nuevo[u]
    BY <1>2, <1>3, <1>4, <2>1
  <2>3. QED
    BY <1>1, <2>1, <2>2
<1>5. CASE pet[w].nuevo[u] = Nada
  <2>1. u # Nada
    BY ConstantesInventario
  <2>2. pet[w].fila.origen # u /\ pet[w].fila.destino # u
    BY <1>1, <1>5, <2>1 DEF Pedido
  <2>3. stock'[u] = stock[u]
    BY <1>2, <1>3, <1>5
  <2>4. QED
    BY <2>2, <2>3
<1>6. QED
  BY <1>4, <1>5

\* The stock and the log change together: a movement that appears in the log,
\* and that read what was still there, took from the origin and gave to the
\* destination what its row says, and touched no other location.
THEOREM StockCuadra == Spec => MovimientoCuadra
<1> DEFINE Cuadra == \A m \in Movimientos \ Registrados :
         mov'[m].sello # 0
           => \A w \in Peticiones :
                pet[w].mov = m /\ LecturaVigente(w)
                  => \A u \in Ubicaciones :
                       Cuanto(stock'[u]) + (IF mov'[m].origen = u
                                            THEN mov'[m].cant ELSE 0)
                         = Cuanto(stock[u]) + (IF mov'[m].destino = u
                                               THEN mov'[m].cant ELSE 0)
<1>1. IInv /\ [Next]_vars => [Cuadra]_vars
  <2> SUFFICES ASSUME IInv, Next, NEW m \in Movimientos \ Registrados, mov'[m].sello # 0,
                      NEW w \in Peticiones, pet[w].mov = m, LecturaVigente(w),
                      NEW u \in Ubicaciones
               PROVE  Cuanto(stock'[u]) + (IF mov'[m].origen = u THEN mov'[m].cant ELSE 0)
                        = Cuanto(stock[u]) + (IF mov'[m].destino = u THEN mov'[m].cant ELSE 0)
    OBVIOUS
  <2>1. PICK v \in Peticiones : Paso(v)
    BY DEF Next, Paso
  <2>2. mov[m].sello = 0
    BY DEF Registrados
  <2>3. Commit(v)
    BY <2>1, <2>2, SoloSuPeticion DEF IInv, Tipo, SinFilas
  <2>4. pet[v].mov \in Movimientos /\ pet[v].mov = m /\ mov'[m] = pet[v].fila
    BY <2>2, <2>3 DEF IInv, Tipo, TypeOK, Forma, FormaPeticion, Commit
  <2>5. v = w
    BY <2>4, ConstantesInventario DEF IInv, MovimientosPropios
  <2>6. QED
    BY <2>3, <2>4, <2>5, CommitCuadra
<1>2. QED
  BY <1>1, Invariante, PTL DEF Spec, MovimientoCuadra
=============================================================================
