--------------------------- MODULE MCDictSharing ---------------------------
(***************************************************************************)
(* DictSharing with interchangeable dictionaries and a few consumers at a  *)
(* time: the others have already been closed.                              *)
(***************************************************************************)
EXTENDS DictSharing, TLC

CONSTANT Live    \* the sets of consumers that are open together

DictSymmetry == Permutations(Dicts)

MCInit ==
    \E live \in Live :
        /\ open = [c \in Consumers |-> c \in live]
        /\ dictLock = [d \in Dicts |-> 0] /\ ownLock = [c \in Ctxs |-> 0]
        /\ pc = [c \in Consumers |-> "idle"] /\ stage = [c \in Consumers |-> "init"]
        /\ arg = [c \in Consumers |-> NoDict] /\ field = arg /\ ref = arg
        /\ worker = arg /\ refSet = [c \in Consumers |-> {}] /\ multiple = [c \in Consumers |-> FALSE]

MCSpec == MCInit /\ [][Next]_vars
=============================================================================
