-------------------------- MODULE MCInterestLeases --------------------------
(***************************************************************************)
(* Small instances of InterestLeases.                                      *)
(***************************************************************************)
EXTENDS InterestLeases

CONSTANTS k1, k2, k3, p1, p2, r1

\* One chat, wanted by two principals.
OneChat == {1}
OneChatAccount == [c \in {1} |-> 1]
TwoKeys == {k1, k2}
TwoKeysChat == [k \in {k1, k2} |-> 1]
TwoKeysPrincipal == [k \in {k1, k2} |-> IF k = k1 THEN p1 ELSE p2]

\* Two accounts with a chat each; two principals compete for the one lease of
\* the first account.
TwoChats == {1, 2}
OwnAccounts == [c \in {1, 2} |-> c]
ThreeKeys == {k1, k2, k3}
ThreeKeysChat == [k \in ThreeKeys |-> IF k = k2 THEN 2 ELSE 1]
ThreeKeysPrincipal == [k \in ThreeKeys |-> IF k = k3 THEN p2 ELSE p1]
=============================================================================
