---------------------------- MODULE MCEventStream ----------------------------
(* The instances of EventStream that TLC checks. *)
EXTENDS EventStream

CONSTANTS m1, a1, a2

OneAddress == {a1}
TwoAddresses == {a1, a2}
MailAndAddress == {m1, a1}
MailAndTwoAddresses == {m1, a1, a2}
TheMail == {m1}
NoMail == {}
NoLimit == {0}
OneAtATime == {1}
TwoAtATime == {2}
==============================================================================
