------------------------------- MODULE MCMail -------------------------------
(* Small instances of Mail for TLC.                                        *)
EXTENDS Mail

MCSem == {sendLock, messageSent, messageAvailable} \cup ListSems
=============================================================================
