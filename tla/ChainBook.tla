------------------------------ MODULE ChainBook ------------------------------
(* What a book of service chains and service paths promises: a path goes over *)
(* a chain that is in the book, and a chain that leaves the book takes its    *)
(* paths with it.  ServiceChains shows that the book of the SDN controller    *)
(* keeps this promise whatever commands it misses.                            *)
CONSTANTS Ids,      \* identifiers of chains
          Pairs,    \* (source, destination) pairs
          Lists,    \* the lists of service functions a chain can have
          Empty,    \* no such chain
          NoId      \* no such path

VARIABLES chains,   \* Ids -> Lists \cup {Empty}
          paths     \* Pairs -> Ids \cup {NoId}

Init == /\ chains = [i \in Ids |-> Empty]
        /\ paths = [p \in Pairs |-> NoId]

AddChain(i, l) == /\ chains' = [chains EXCEPT ![i] = l]
                  /\ UNCHANGED paths

RemoveChain(i) == /\ chains' = [chains EXCEPT ![i] = Empty]
                  /\ paths' = [p \in Pairs |-> IF paths[p] = i THEN NoId ELSE paths[p]]

AddPath(p, i) == /\ chains[i] # Empty
                 /\ paths' = [paths EXCEPT ![p] = i]
                 /\ UNCHANGED chains

RemovePath(p) == /\ paths' = [paths EXCEPT ![p] = NoId]
                 /\ UNCHANGED chains

Forget == /\ chains' = [i \in Ids |-> Empty]
          /\ paths' = [p \in Pairs |-> NoId]

Next == \/ \E i \in Ids, l \in Lists : AddChain(i, l)
        \/ \E i \in Ids : RemoveChain(i)
        \/ \E p \in Pairs, i \in Ids : AddPath(p, i)
        \/ \E p \in Pairs : RemovePath(p)
        \/ Forget

Spec == Init /\ [][Next]_<<chains, paths>>
=============================================================================
