----------------------------- MODULE TypeAhead -----------------------------
(***************************************************************************)
(* What the keyboard driver promises a program: characters reach it in the *)
(* order of their keys.  What is typed while nobody reads is kept, up to a *)
(* bound; a read starts with all of it.  Keyboard implements this with a   *)
(* ring buffer and the buffer of the reader.                               *)
(***************************************************************************)
EXTENDS Naturals, Sequences

CONSTANTS Bound,   \* how many characters are kept
          Chars

VARIABLES
  ahead,   \* the characters kept
  got,     \* what the last read has received
  reading  \* whether it goes on

vars == <<ahead, got, reading>>

Init == ahead = <<>> /\ got = <<>> /\ reading = FALSE

Keep(c) ==   \* when there is no room the character is lost
  /\ ~ reading /\ Len(ahead) < Bound
  /\ ahead' = Append(ahead, c)
  /\ UNCHANGED <<got, reading>>

Receive(c) ==   \* a read may end with any character
  /\ reading /\ got' = Append(got, c) /\ reading' \in BOOLEAN
  /\ UNCHANGED ahead

End == reading /\ reading' = FALSE /\ UNCHANGED <<ahead, got>>

Read == reading' = TRUE /\ got' = ahead /\ ahead' = <<>>

Open == reading' = FALSE /\ ahead' = <<>> /\ UNCHANGED got

Next == (\E c \in Chars : Keep(c) \/ Receive(c)) \/ End \/ Read \/ Open

Spec == Init /\ [][Next]_vars
===========================================================================
