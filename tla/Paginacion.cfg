SPECIFICATION SpecFiltros
CONSTANTS
    Filas = {1, 2, 3}
    Grupos = {g1, g2}
    MaxMarca = 2
    Tamanio = 1
    Nada = Nada
INVARIANTS TypeOK SinRepetidos SinOmisiones DesvioAcotado
CHECK_DEADLOCK FALSE
