SPECIFICATION FairSpec
CONSTANTS
    Cuentas = {c1}
    Traslados = {t1}
    Radicaciones = {}
    Novedades = {n1}
    CuentaDe <- MCCuentaDe
    Actores = {a1}
    Peticiones = {w1, w2}
    MaxReloj = 1
    Nada = Nada
PROPERTIES TodaPeticionTermina
