---------------------------- MODULE MCLivePublisher ----------------------------
(* An instance of LivePublisher: one fast, one slow and one unserved rate.     *)
EXTENDS LivePublisher

MCSubscriptions == {"fast", "slow", "unserved"}
MCRate == [s \in MCSubscriptions |->
             CASE s = "fast" -> 2 [] s = "slow" -> 1 [] s = "unserved" -> 3]
==============================================================================
