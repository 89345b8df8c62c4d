SPECIFICATION SpecEscenas
CONSTANTS
    Peticiones = {w1, w2}
    Procesos = {h1}
    Roles = {r1, r2}
    Claves = {p, q}
    TtlRedis = 2
    TtlLocal = 1
    TtlPerfil = 1
    MaxVigencia = 1
    MaxDuracion = 1
    Nada = Nada
    Siempre = Siempre
INVARIANTS TypeOK ObsolescenciaAcotada AdmisionAcotada
PROPERTIES RolSoloCrece LlaveNoRevive
