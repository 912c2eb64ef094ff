---------------------------- MODULE MCNATSClient ----------------------------
(* Instances of NATSClient for TLC. *)
EXTENDS NATSClient

CONSTANTS p1, p2, s1, s2, w1

OnePublisher == {p1}
TwoPublishers == {p1, p2}
OneWatcher == {w1}
TwoSubjects == {s1, s2}
=============================================================================
