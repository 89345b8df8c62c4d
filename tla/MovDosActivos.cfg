SPECIFICATION Spec
CONSTANTS
    Cuentas = {c1}
    Traslados = {t1, t2}
    Radicaciones = {}
    Novedades = {}
    CuentaDe <- MCCuentaDe
    Actores = {a1}
    Peticiones = {w1, w2}
    MaxReloj = 0
    Nada = Nada
INVARIANTS UnProcesoActivo
