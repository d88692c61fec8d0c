------------------------------ MODULE MCDaemon ------------------------------
(* Small instances of Daemon for TLC. *)
EXTENDS Daemon

CONSTANTS p1, p2, e1, vendor, forger

(* A license that expires on day 1, one without an expiry date that someone   *)
(* else signed, a file that cannot be read, and nothing.                      *)
SomeSources ==
    {Unset, Unreadable,
     Holding(Token(TRUE, vendor, "harbour", "enterprise", {}, 1)),
     Holding(Token(TRUE, forger, "harbour", "enterprise", {FeatureMultiWorker}, 0))}
=============================================================================
