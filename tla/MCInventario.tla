---------------------------- MODULE MCInventario ----------------------------
(* Instances of Inventario for TLC. *)
EXTENDS Inventario, TLC

\* Requests and movements are interchangeable.
Simetria == Permutations(Peticiones) \cup Permutations(Movimientos)

(* What two ingresos leave, one after the other: locations 1 and 2 hold one unit
   each and the others have no row.  Movements race from here. *)
InitAbastecido ==
    /\ stock = [u \in Ubicaciones |-> IF u \in {1, 2} THEN 1 ELSE Nada]
    /\ \E a, b \in Movimientos :
         /\ a # b
         /\ mov = [m \in Movimientos |->
                     CASE m = a -> [MovimientoAusente EXCEPT
                                      !.sello = 1, !.destino = 1, !.cant = 1]
                       [] m = b -> [MovimientoAusente EXCEPT
                                      !.sello = 2, !.destino = 2, !.cant = 1,
                                      !.anterior = a]
                       [] OTHER -> MovimientoAusente]
    /\ pet = [w \in Peticiones |-> PeticionLibre]

SpecAbastecido == InitAbastecido /\ [][Next]_vars
=============================================================================
