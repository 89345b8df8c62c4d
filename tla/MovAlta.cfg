SPECIFICATION Spec
CONSTANTS
    Cuentas = {c1}
    Traslados = {t1, t2}
    Radicaciones = {r1}
    Novedades = {}
    CuentaDe <- MCCuentaDe
    Actores = {a1}
    Peticiones = {w1, w2}
    MaxReloj = 2
    Nada = Nada
INVARIANTS TypeOK AprobadoTieneVencimiento RadicacionTrasAprobacion
SYMMETRY Simetria
