---------------------------- MODULE MCLokiSender ----------------------------
(* LokiSender for TLC: the goroutine identities are interchangeable. *)
EXTENDS LokiSender, TLC

PusherSymmetry == Permutations(Pusher)
=============================================================================
