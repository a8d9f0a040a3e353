-------------------------- MODULE MCConfigManager --------------------------
(* Instances of ConfigManager.  One of the passwords may be longer than     *)
(* what the manager keeps of it, which is then another one.                 *)
EXTENDS ConfigManager, FiniteSets

CONSTANTS
  LongPassword,  \* a password of 256 bytes or more, None if there is none
  ItsStart       \* its first 255 bytes

MCKept == [p \in Passwords |-> IF p = LongPassword THEN ItsStart ELSE p]

\* What calls made one after the other depend on: how many are left and the one
\* that is under way, but nothing of those that have ended, nor which call is
\* which.  The properties of such runs do not look at that either.
Active == {c \in Calls : call[c] \notin Finished \cup {"idle"}}
SerialView ==
  <<memVars, lock # None, storeVars, histVars, Cardinality({c \in Calls : call[c] = "idle"}),
    {<<call[c], arg[c], json[c], blob[c], dest[c]>> : c \in Active}>>
=============================================================================
