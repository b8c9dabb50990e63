\* Generation registry and route worker, under their fairness.
SPECIFICATION RoutesSpec
CONSTANTS
    r1 = r1
    a1 = a1
    l1 = l1
    l2 = l2
    t1 = t1
PROPERTIES
    RetiredGenerationEmpties
    
\* A closed registry and a stopped worker stay so.
CHECK_DEADLOCK FALSE
