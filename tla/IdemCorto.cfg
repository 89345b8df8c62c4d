SPECIFICATION SpecCasos
CONSTANTS
    i1 = i1
    i2 = i2
    i3 = i3
    c1 = c1
    c2 = c2
    Intentos = {i1, i2, i3}
    Cuerpos = {c1, c2}
    Modos = {"explicito", "automatico"}
    TtlEnVuelo = 2
    TtlExplicito = 2
    TtlAutomatico = 1
    MaxDuracion = 2
    Nada = Nada
INVARIANTS TypeOK Exclusion RepetidaEsFiel
PROPERTIES SinSegundaEjecucion TodoIntentoResponde
CHECK_DEADLOCK FALSE
