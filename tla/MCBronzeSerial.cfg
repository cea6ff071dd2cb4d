\* One call at a time, over two archives that share a dataset name.
CONSTANTS
    w1 = w1
    a1 = a1
    a2 = a2
    d1 = d1
    r1 = r1
    r2 = r2
    Writers = {w1}
    Archives = {a1, a2}
    Datasets = {d1}
    Runs = {r1, r2}
    Overlap = FALSE
    None = None
SPECIFICATION Spec
PROPERTIES
    BronzeImmutable
