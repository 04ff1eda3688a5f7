------------------------------ MODULE KemSpec ------------------------------
(***************************************************************************)
(* What a key-encapsulation mechanism promises, whatever the scheme and    *)
(* however many threads use it: every call takes effect at one moment, the *)
(* receiver of a ciphertext gets the sender's secret, and nothing else     *)
(* yields that secret.                                                     *)
(***************************************************************************)
CONSTANT Explicit   \* algorithms that report a bad ciphertext

VARIABLES
    keys,    \* key pairs generated: algorithm, public and private key
    sent,    \* encapsulations: algorithm, public key, ciphertext, secret
    opened   \* decapsulations: algorithm, private key, ciphertext, secret

promised == <<keys, sent, opened>>

Matches(s, o) ==
    s.ct = o.ct /\ \E k \in keys : k.pk = s.pk /\ k.sk = o.sk

Init == keys = {} /\ sent = {} /\ opened = {}

GenerateKey ==
    \E k \in keys' :
        /\ keys' = keys \cup {k}
        /\ \A j \in keys : j.pk = k.pk <=> j.sk = k.sk
        /\ UNCHANGED <<sent, opened>>

Encapsulate ==
    \E s \in sent' :
        /\ sent' = sent \cup {s}
        /\ \A u \in sent : u.ss = s.ss <=> (u.pk = s.pk /\ u.ct = s.ct)
        /\ UNCHANGED <<keys, opened>>

(* A ciphertext changed in any way is reported, or gives a secret of its   *)
(* own: the same each time, and no other ciphertext's or key's.            *)
Decapsulate ==
    \E o \in opened' :
        /\ opened' = opened \cup {o}
        /\ \A s \in sent : s.ss = o.ss <=> Matches(s, o)
        /\ \A u \in opened : u.ss = o.ss <=> (u.sk = o.sk /\ u.ct = o.ct)
        /\ o.alg \in Explicit => \E s \in sent : Matches(s, o)
        /\ UNCHANGED <<keys, sent>>

Next == GenerateKey \/ Encapsulate \/ Decapsulate

Spec == Init /\ [][Next]_promised
=============================================================================
