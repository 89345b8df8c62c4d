SPECIFICATION SpecSecuencial
CONSTANTS
    Cuentas = {c1}
    Traslados = {t1, t2}
    Radicaciones = {r1, r2}
    Novedades = {n1, n2}
    CuentaDe <- MCCuentaDe
    Actores = {a1, a2}
    Peticiones = {w1}
    MaxReloj = 3
    Nada = Nada
INVARIANTS CompletadoCoincide
PROPERTIES CicloDeUnProceso ResolverUltimaLibera
