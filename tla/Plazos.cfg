SPECIFICATION Spec
CONSTANTS
    Plazo = 60
    PrimerDia <- Desde
    UltimoDia <- Hasta
    MaxRetraso = 15
    Nada = Nada
INVARIANTS SignoDelPlazo
PROPERTIES CuentaAtras
CHECK_DEADLOCK FALSE
