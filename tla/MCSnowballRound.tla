-------------------------- MODULE MCSnowballRound --------------------------
(* Instances of SnowballRound for TLC. *)
EXTENDS SnowballRound, TLC

CONSTANTS l, p, q

Empty == <<>>
OneEach == << [node |-> l, share |-> 1], [node |-> p, share |-> 1],
              [node |-> q, share |-> 1] >>
PeerTwo == << [node |-> p, share |-> 2], [node |-> l, share |-> 1] >>
OneTwoThree == << [node |-> p, share |-> 1], [node |-> q, share |-> 2],
                  [node |-> l, share |-> 3] >>
=============================================================================
