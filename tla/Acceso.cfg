SPECIFICATION SpecEscenas
CONSTANTS
    Peticiones = {w1, w2}
    Enlaces = {k1, k2}
    MaxPeticiones = 4
    MaxReloj = 4
    MaxIntentos = 2
    TtlBloqueo = 2
    TtlSesion = 2
    TtlMarca = 3
    VidaRefresh = 4
    TtlEnlace = 2
    TtlPausa = 1
    Nada = Nada
INVARIANTS TypeOK CierreFirme BloqueoAcotado
PROPERTIES ReusoSoloTrasMarca EscrituraLimpia EnlaceDeUnUso
SYMMETRY Simetria
CHECK_DEADLOCK FALSE
