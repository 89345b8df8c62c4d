---------------------------- MODULE MCPaginacion ----------------------------
(* Instances of Paginacion for TLC. *)
EXTENDS Paginacion

\* Filters that each list takes.
ConEstado == {"traslados", "radicaciones", "novedades", "usuarios", "vehiculos",
              "inspecciones"}
ConVencidos == {"traslados", "radicaciones"}

\* A filter by one value of the columns that never change, or none, and by state.
Uno == CHOOSE g \in Grupos : TRUE
FiltrosDe(l) ==
    [grupo : {Uno, Nada}, abierto : IF l \in ConEstado THEN {TRUE, Nada} ELSE {Nada},
     vencidos : IF l \in ConVencidos THEN BOOLEAN ELSE {FALSE}]

InitFiltros == Init /\ filtro \in FiltrosDe(lista)
SpecFiltros == InitFiltros /\ [][Next]_vars
=============================================================================
