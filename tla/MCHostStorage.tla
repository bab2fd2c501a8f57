--------------------------- MODULE MCHostStorage ---------------------------
(* Instances of HostStorage: two contracts, one of them not deployed yet.    *)
EXTENDS HostStorage

Rw(keys) == [k \in keys |-> "rw"]
Base == {InstKey("A"), CodeKey("h1"), DataKey("A", "k", "persistent"), DataKey("A", "k", "temporary"),
         InstKey("B"), CodeKey("h2")}
MCExtendTo == {<<1, 3>>}
MCFootprints == {Rw(Base), [k \in Base |-> IF k[1] = "data" THEN "rw" ELSE "ro"]}
=============================================================================
