----------------------------- MODULE BusMemory -----------------------------
(***************************************************************************)
(* What the SDRAM owes the CPU: a memory of words that serves one request  *)
(* at a time.  A read returns the word the memory holds; a write reaches   *)
(* the memory, one byte lane at a time, before it is finished.             *)
(***************************************************************************)
CONSTANTS Tags, Idxs, Byte, None

Sel   == {0, 1}
Lanes == {"u", "l"}
Word  == [Lanes -> Byte]
LineAddr == Tags \X Idxs

Request == [write : BOOLEAN, line : LineAddr, word : Sel,
            lanes : (SUBSET Lanes) \ {{}}, data : Word]

VARIABLES
    ram,     \* [LineAddr -> [Sel -> Word]]
    req,     \* the request being served, or None
    todo,    \* the lanes of a write that have not reached ram
    reply    \* what a read is answered, or None

vars == <<ram, req, todo, reply>>

Init ==
    /\ ram \in [LineAddr -> [Sel -> Word]]
    /\ req = None /\ todo = {} /\ reply = None

Ask ==
    /\ req = None
    /\ req' \in Request
    /\ todo' = IF req'.write THEN req'.lanes ELSE {}
    /\ UNCHANGED <<ram, reply>>

Commit(l) ==
    /\ l \in todo
    /\ ram' = [ram EXCEPT ![req.line][req.word][l] = req.data[l]]
    /\ todo' = todo \ {l}
    /\ UNCHANGED <<req, reply>>

Answer ==
    /\ req # None /\ ~req.write /\ reply = None
    /\ reply' = ram[req.line][req.word]
    /\ UNCHANGED <<ram, req, todo>>

Finish ==
    /\ req # None /\ todo = {}
    /\ ~req.write => reply # None
    /\ req' = None /\ reply' = None
    /\ UNCHANGED <<ram, todo>>

Next == Ask \/ (\E l \in Lanes : Commit(l)) \/ Answer \/ Finish

Spec == Init /\ [][Next]_vars
=============================================================================
