---------------------------- MODULE MCGovernedRun ----------------------------
(* A small instance of GovernedRun for TLC. *)
EXTENDS GovernedRun, TLC

CONSTANTS p1, p2, a, b, packetA, packetB, grantI, grantR, fixA, fixA2, fixC

\* Architect a's packet with the two live-call grants it asks for, and b's packet.
\* Three corrections of one id: a first version, the same body again as a second version,
\* and another body as a first version.
FewDocs == {packetA, packetB, grantI, grantR, fixA, fixA2, fixC}
Fixes == {fixA, fixA2, fixC}
Keys_ == [d \in FewDocs |-> IF d \in Fixes THEN "fix" ELSE d]
Versions == [d \in FewDocs |-> IF d = fixA2 THEN 2 ELSE 1]
Bodies_ == [d \in FewDocs |-> IF d \in {fixA, fixA2} THEN "fix" ELSE d]
Issuers == [d \in FewDocs |-> IF d = packetB THEN b ELSE IF d \in {grantI, grantR} THEN "human" ELSE a]
Predecessors == [d \in FewDocs |-> IF d = fixA2 THEN fixA ELSE None]

TwoProcs == {p1, p2}
TwoArchitects == {a, b}
OneOther == {b}
TwoPackets == {packetA, packetB}
OneBundle == {<<packetA, grantI, grantR>>}
AnswersFix == [body \in {"fix", fixC} |-> <<packetA, 2>>]
SuppliedGrants == [IMPLEMENTATION |-> [grant |-> grantI, packet |-> packetA],
                   ARCHITECT_REVIEW |-> [grant |-> grantR, packet |-> packetA]]

Symmetry == Permutations(TwoProcs)

\* Without a power loss no process sees what has been synced.
View == <<archive, appends, minted, admitted, audit, calls>>
=============================================================================
