-------------------------- MODULE MCDekodeSession --------------------------
(* Small instance of DekodeSession for TLC: two threads, two channels, a   *)
(* valid and a wrong token, the mock session id and a bogus one, and the   *)
(* RPCs FakeAgentServicer implements.                                      *)
EXTENDS DekodeRefinementProofs, TLC

CONSTANTS t1, t2, c1, c2, goodTok, badTok, mockSid, bogusSid

MCThreads == {t1, t2}
MCChannels == {c1, c2}
MCTokens == {goodTok, badTok}
MCSessionIds == {mockSid, bogusSid}
MCServerOps == {"Connect", "Submit"}

(* The session RPCs differ only in whether the servicer implements them:   *)
(* one of each kind (Submit is, FileWrite is not) stands for all five.     *)
MCRpcOps == {"Submit", "FileWrite"}

MCSymmetry == Permutations(MCThreads) \cup Permutations(MCChannels)
=============================================================================
