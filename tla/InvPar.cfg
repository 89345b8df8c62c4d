SPECIFICATION SpecAbastecido
CONSTANTS
    Ubicaciones = {1, 2, 3}
    Movimientos = {m1, m2, m3, m4, m5}
    Peticiones = {w1, w2}
    MaxCantidad = 2
    MaxReloj = 4
    MaxEntero = 2
    Nada = Nada
INVARIANTS TypeOK CadenaHaciaAtras SinAbrazoMortal
PROPERTIES MovimientoCuadra
SYMMETRY Simetria
CHECK_DEADLOCK FALSE
