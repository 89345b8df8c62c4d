----------------------------- MODULE Inventario -----------------------------
(***************************************************************************)
(* The stock of one supply of the parking lot and the chained log of its   *)
(* movements.  registrar_movimiento is one transaction at READ COMMITTED:  *)
(* it reads the hash of the last movement, reads the stock of the two      *)
(* locations, computes both in memory and writes everything in one flush   *)
(* (the session has autoflush off).  Supplies share no row, so one is      *)
(* enough.  Locations are numbers, in the order of the primary key.        *)
(***************************************************************************)
EXTENDS Naturals, FiniteSetsExt

CONSTANTS
    Ubicaciones,    \* locations that may hold the supply
    Movimientos,    \* pool of movement identifiers (uuid4)
    Peticiones,     \* request slots
    MaxCantidad,    \* bound on the quantity of one movement
    MaxReloj,       \* bound on the time at which requests arrive
    MaxEntero,      \* largest INTEGER of the database (2^31 - 1)
    Nada            \* no location, no movement, no row

ASSUME ConstantesInventario ==
    /\ Ubicaciones \subseteq Nat
    /\ MaxCantidad \in Nat \ {0} /\ MaxReloj \in Nat /\ MaxEntero \in Nat
    /\ IsFiniteSet(Movimientos) /\ IsFiniteSet(Peticiones)
    /\ Nada \notin Nat \cup Movimientos

VARIABLES
    stock,  \* stock[u]: committed cantidad of location u, Nada without a row
    mov,    \* mov[m]: committed row of movement m
    pet     \* pet[w]: the request slot w is serving, with its transaction

vars == <<stock, mov, pet>>

Cantidad == 1..MaxCantidad
Existencia == Nat \cup {Nada}

Movimiento == [sello : Nat,                          \* creado_en, 0: no row
               origen : Ubicaciones \cup {Nada},     \* Nada: an ingreso
               destino : Ubicaciones \cup {Nada},
               cant : Nat,
               anterior : Movimientos \cup {Nada}]   \* hash_anterior

MovimientoAusente == [sello |-> 0, origen |-> Nada, destino |-> Nada,
                      cant |-> 0, anterior |-> Nada]

Pasos == {"libre", "ultimo", "origen", "destino", "escribir", "commit"}

Peticion == [paso : Pasos,
             mov : Movimientos \cup {Nada},
             fila : Movimiento,                      \* movement to INSERT
             leido : [Ubicaciones -> Existencia],    \* stock rows it loaded
             nuevo : [Ubicaciones -> Existencia],    \* stock it will write
             escrito : SUBSET Ubicaciones]           \* rows it holds

SinLeer == [u \in Ubicaciones |-> Nada]

PeticionLibre == [paso |-> "libre", mov |-> Nada, fila |-> MovimientoAusente,
                  leido |-> SinLeer, nuevo |-> SinLeer, escrito |-> {}]

Registrados == {m \in Movimientos : mov[m].sello # 0}

\* Mutant: a clock so coarse that two movements may get the same time.
AhoraGrueso == Max({1} \cup {mov[m].sello : m \in Movimientos}
                       \cup {pet[w].fila.sello : w \in Peticiones})

\* datetime.now(): later than every movement stamped before.
Ahora == 1 + Max({0} \cup {mov[m].sello : m \in Movimientos}
                     \cup {pet[w].fila.sello : w \in Peticiones})

----------------------------------------------------------------------------
Init ==
    /\ stock = SinLeer
    /\ mov = [m \in Movimientos |-> MovimientoAusente]
    /\ pet = [w \in Peticiones |-> PeticionLibre]

Terminar(w) == pet' = [pet EXCEPT ![w] = PeticionLibre]
SinFilas == UNCHANGED <<stock, mov>>

\* POST /inventarios/movimientos: an ingreso has no origin, a traslado has one.
Pedir(w, m, o, d, c) ==
    /\ pet[w].paso = "libre"
    /\ Ahora <= MaxReloj
    /\ mov[m].sello = 0
    /\ \A v \in Peticiones : pet[v].mov # m
    /\ pet' = [pet EXCEPT ![w] = [PeticionLibre EXCEPT
                 !.paso = "ultimo", !.mov = m,
                 !.fila = [MovimientoAusente EXCEPT
                             !.origen = o, !.destino = d, !.cant = c]]]
    /\ SinFilas

Primero(w) == IF pet[w].fila.origen = Nada THEN "destino" ELSE "origen"

\* The last movement by creado_en; then the time of the new one.
ConsultarUltimo(w) ==
    /\ pet[w].paso = "ultimo"
    /\ \E a \in Movimientos \cup {Nada} :
         /\ a = Nada => Registrados = {}
         /\ a # Nada => /\ a \in Registrados
                        /\ \A m \in Registrados : mov[m].sello <= mov[a].sello
         /\ pet' = [pet EXCEPT ![w].fila.anterior = a, ![w].fila.sello = Ahora,
                               ![w].paso = Primero(w)]
    /\ SinFilas

\* Mutant: the balance is not looked at.
ConsultarOrigenSinSaldo(w) ==
    /\ pet[w].paso = "origen"
    /\ LET o == pet[w].fila.origen
       IN  IF stock[o] = Nada
           THEN Terminar(w)
           ELSE pet' = [pet EXCEPT ![w].leido[o] = stock[o],
                                   ![w].nuevo[o] = stock[o] - pet[w].fila.cant,
                                   ![w].paso = "destino"]
    /\ SinFilas

\* _actualizar_stock(origen, -cantidad): no row or too little stock is a 409.
ConsultarOrigen(w) ==
    /\ pet[w].paso = "origen"
    /\ LET o == pet[w].fila.origen
           c == pet[w].fila.cant
       IN  IF stock[o] = Nada
           THEN Terminar(w)
           ELSE IF stock[o] < c
           THEN Terminar(w)
           ELSE pet' = [pet EXCEPT ![w].leido[o] = stock[o],
                                   ![w].nuevo[o] = stock[o] - c,
                                   ![w].paso = "destino"]
    /\ SinFilas

\* Mutant: what the location held is forgotten.
ConsultarDestinoSinSumar(w) ==
    /\ pet[w].paso = "destino"
    /\ LET d == pet[w].fila.destino
       IN  pet' = [pet EXCEPT ![w].leido[d] = stock[d],
                              ![w].nuevo[d] = pet[w].fila.cant,
                              ![w].paso = "escribir"]
    /\ SinFilas

\* _actualizar_stock(destino, cantidad).  The row of a location already loaded
\* by this session is the object it has changed, not the row read again.
ConsultarDestino(w) ==
    /\ pet[w].paso = "destino"
    /\ LET d == pet[w].fila.destino
           base == IF pet[w].leido[d] # Nada THEN pet[w].nuevo[d] ELSE stock[d]
           leido == IF pet[w].leido[d] # Nada THEN pet[w].leido[d] ELSE stock[d]
       IN  pet' = [pet EXCEPT
                     ![w].leido[d] = leido,
                     ![w].nuevo[d] = pet[w].fila.cant
                                       + (IF base = Nada THEN 0 ELSE base),
                     ![w].paso = "escribir"]
    /\ SinFilas

----------------------------------------------------------------------------
(* The flush: UPDATEs in the order of the primary key, then the INSERT *)

Pendientes(w) == {u \in Ubicaciones \ pet[w].escrito : pet[w].nuevo[u] # Nada}
PorActualizar(w) == {u \in Pendientes(w) : pet[w].leido[u] # Nada}

\* Mutant: rows are written in the order the code touched them.
SiguienteSinOrden(w) ==
    IF pet[w].fila.origen \in Pendientes(w) THEN {pet[w].fila.origen}
                                            ELSE Pendientes(w)

\* The row the next statement of the flush writes.
Siguiente(w) ==
    IF PorActualizar(w) # {} THEN {Min(PorActualizar(w))} ELSE Pendientes(w)

\* A row another transaction has written and not committed.
FilaBloqueada(w, u) == \E v \in Peticiones \ {w} : u \in pet[v].escrito

\* A duplicate key or a cantidad that does not fit in INTEGER is an error.
Rechazada(w, u) == \/ pet[w].leido[u] = Nada /\ stock[u] # Nada
                   \/ pet[w].nuevo[u] > MaxEntero

Escribir(w) ==
    /\ pet[w].paso = "escribir"
    /\ \E u \in Siguiente(w) :
         /\ ~FilaBloqueada(w, u)
         /\ IF Rechazada(w, u)
            THEN Terminar(w)
            ELSE pet' = [pet EXCEPT
                           ![w].escrito = @ \cup {u},
                           ![w].paso = IF Pendientes(w) = {u} THEN "commit" ELSE @]
    /\ SinFilas

\* Only a cantidad that changed is in the SET of the UPDATE.
Commit(w) ==
    /\ pet[w].paso = "commit"
    /\ stock' = [u \in Ubicaciones |->
                   IF u \in pet[w].escrito /\ pet[w].nuevo[u] # pet[w].leido[u]
                   THEN pet[w].nuevo[u] ELSE stock[u]]
    /\ mov' = [mov EXCEPT ![pet[w].mov] = pet[w].fila]
    /\ Terminar(w)

\* Any failure before COMMIT, statement_timeout included.
Rollback(w) ==
    /\ pet[w].paso # "libre"
    /\ Terminar(w)
    /\ SinFilas

Llegar(w) == \E m \in Movimientos, o \in Ubicaciones \cup {Nada},
                d \in Ubicaciones, c \in Cantidad : Pedir(w, m, o, d, c)

Avanzar(w) == \/ ConsultarUltimo(w) \/ ConsultarOrigen(w) \/ ConsultarDestino(w)
              \/ Escribir(w) \/ Commit(w)

Next == \E w \in Peticiones : Llegar(w) \/ Avanzar(w) \/ Rollback(w)

Spec == Init /\ [][Next]_vars

----------------------------------------------------------------------------
(* Properties *)

TypeOK ==
    /\ stock \in [Ubicaciones -> Existencia]
    /\ mov \in [Movimientos -> Movimiento]
    /\ pet \in [Peticiones -> Peticion]

Cuanto(x) == IF x = Nada THEN 0 ELSE x

\* A movement that nobody raced changes the stock of every location by what it
\* says it moved: the books and the shelves change together or not at all.
LecturaVigente(w) == \A u \in Ubicaciones :
                        pet[w].nuevo[u] # Nada => pet[w].leido[u] = stock[u]

MovimientoCuadra ==
    [][\A m \in Movimientos \ Registrados :
         mov'[m].sello # 0
           => \A w \in Peticiones :
                pet[w].mov = m /\ LecturaVigente(w)
                  => \A u \in Ubicaciones :
                       Cuanto(stock'[u]) + (IF mov'[m].origen = u
                                            THEN mov'[m].cant ELSE 0)
                         = Cuanto(stock[u]) + (IF mov'[m].destino = u
                                               THEN mov'[m].cant ELSE 0)]_vars

\* Following hash_anterior always goes back in time, so the log can be walked to
\* its beginning, however requests interleave.
CadenaHaciaAtras ==
    \A m \in Registrados :
        LET a == mov[m].anterior
        IN  a # Nada => a \in Registrados /\ mov[a].sello < mov[m].sello

\* w waits for a row v has written; all the rows w writes existed when it read.
Espera(w, v) == /\ pet[w].paso = "escribir"
                /\ w # v
                /\ Siguiente(w) \cap pet[v].escrito # {}
SoloActualiza(w) ==
    \A u \in Ubicaciones : pet[w].nuevo[u] # Nada => pet[w].leido[u] # Nada

\* Movements between locations that have their row never wait for each other,
\* whatever their direction: the flush locks rows in the order of the key.
SinAbrazoMortal ==
    \A w, v \in Peticiones :
        SoloActualiza(w) /\ SoloActualiza(v) => ~(Espera(w, v) /\ Espera(v, w))
=============================================================================
