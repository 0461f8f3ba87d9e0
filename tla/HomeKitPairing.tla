--------------------------- MODULE HomeKitPairing ---------------------------
(***************************************************************************)
(* The setup code of the HomeKit doorbell (homekit_accessory.py): the code    *)
(* in force, the file that carries it over a restart, the one the options     *)
(* page shows, and the pairings that change it.  Codes are numbers, a new one *)
(* each time; pyhap keeps the pairings in its own state file.                 *)
(***************************************************************************)
EXTENDS Naturals, Sequences, FiniteSets

CONSTANTS
    Controllers,     \* who may pair
    MaxFailures,     \* MAX_PAIR_FAILURES
    Faults,          \* "starting", "stopping": the last controller leaves, or codes are
                     \* guessed, meanwhile; "across": a pair-setup spans a change of code;
                     \* "save": a save fails; "order": saves overtake; "crash"
    MaxCodes,        \* bound: codes
    None

VARIABLES
    up,        \* "off", "starting", "on", "stopping"
    code,      \* driver.state.pincode
    last,      \* codes made so far
    loaded,    \* the `pincode` of async_setup_homekit
    file,      \* the pin file
    saves,     \* _store_pin on its way
    shown,     \* the pairing data of the options page
    paired,    \* driver.state: the controllers
    fails,     \* _pair_failures
    verifier,  \* the pair-setup under way: [code, proved]
    retired,   \* codes that were replaced
    unsaved    \* a save failed, or a crash came first

vars == <<up, code, last, loaded, file, saves, shown, paired, fails, verifier, retired, unsaved>>

Init ==
    /\ up = "off" /\ code = None /\ last = 0 /\ loaded = None /\ file = None /\ saves = <<>>
    /\ shown = None /\ paired = {} /\ fails = 0 /\ verifier = None /\ retired = {} /\ unsaved = FALSE

Serves == up \in {"starting", "on", "stopping"}
\* The two moments _show_pairing does not expect a change at.
Expected == (up = "starting" => "starting" \in Faults) /\ (up = "stopping" => "stopping" \in Faults)

\* The new code is not saved.
Rotate_Unsaved ==
    /\ last < MaxCodes
    /\ last' = last + 1 /\ code' = last' /\ retired' = retired \cup {code}
    /\ UNCHANGED saves
\* _rotate_pin, and _store_pin of what it gave.
Rotate ==
    /\ last < MaxCodes
    /\ last' = last + 1 /\ code' = last' /\ retired' = retired \cup {code}
    /\ saves' = Append(saves, last')

\* _load_or_create_pin, and the driver that is built with what it gave.
Load ==
    /\ up = "off" /\ (file = None => last < MaxCodes)
    /\ last' = IF file = None THEN last + 1 ELSE last
    /\ loaded' = IF file = None THEN last' ELSE file
    /\ file' = loaded' /\ code' = loaded' /\ up' = "starting" /\ fails' = 0 /\ verifier' = None
    /\ UNCHANGED <<saves, shown, paired, retired, unsaved>>
\* async_start fails: the driver is stopped, the next try loads again.
StartFails ==
    /\ up = "starting" /\ up' = "off"
    /\ UNCHANGED <<code, last, loaded, file, saves, shown, paired, fails, verifier, retired, unsaved>>
Ready ==
    /\ up = "starting" /\ up' = "on"
    /\ shown' = IF paired = {} THEN loaded ELSE shown
    /\ UNCHANGED <<code, last, loaded, file, saves, paired, fails, verifier, retired, unsaved>>

\* A pair-setup: setup_srp_verifier, then the proof, then pair().
SetupBegins ==
    /\ Serves /\ paired = {} /\ verifier' = [code |-> code, proved |-> FALSE]
    /\ UNCHANGED <<up, code, last, loaded, file, saves, shown, paired, fails, retired, unsaved>>
Attempt == verifier # None /\ Serves /\ ("across" \notin Faults => verifier.code = code)
Proved ==
    /\ Attempt
    /\ verifier' = [verifier EXCEPT !.proved = TRUE] /\ fails' = 0
    /\ UNCHANGED <<up, code, last, loaded, file, saves, shown, paired, retired, unsaved>>
\* _pair_attempt(False), and too_many().
NotProved ==
    /\ Attempt /\ ~verifier.proved
    /\ IF fails + 1 < MaxFailures
       THEN fails' = fails + 1 /\ UNCHANGED <<code, last, saves, shown, retired>>
       ELSE Expected /\ Rotate /\ fails' = 0 /\ shown' = last'
    /\ UNCHANGED <<up, loaded, file, paired, verifier, unsaved>>
Pair(c) ==
    /\ Attempt /\ verifier.proved /\ paired = {}
    /\ paired' = {c} /\ fails' = 0 /\ shown' = None /\ verifier' = None
    /\ UNCHANGED <<up, code, last, loaded, file, saves, retired, unsaved>>
\* A controller lets another in.
AddController(c) ==
    /\ Serves /\ paired # {} /\ c \notin paired /\ paired' = paired \cup {c}
    /\ shown' = None /\ fails' = 0
    /\ UNCHANGED <<up, code, last, loaded, file, saves, verifier, retired, unsaved>>
Unpair(c) ==
    /\ Serves /\ c \in paired /\ paired' = paired \ {c}
    /\ IF paired' = {} THEN Expected /\ Rotate /\ shown' = last'
       ELSE UNCHANGED <<code, last, saves, shown, retired>>
    /\ UNCHANGED <<up, loaded, file, fails, verifier, unsaved>>

\* _store_pin in the executor.
Without(i) == SubSeq(saves, 1, i - 1) \o SubSeq(saves, i + 1, Len(saves))
Saved(i) ==
    /\ (i = 1 \/ "order" \in Faults)
    /\ saves' = Without(i)
    /\ \/ file' = saves[i] /\ unsaved' = FALSE
       \/ "save" \in Faults /\ unsaved' = TRUE /\ UNCHANGED file
    /\ UNCHANGED <<up, code, last, loaded, shown, paired, fails, verifier, retired>>

\* _stop(): the driver serves until its views are closed.
StopBegins ==
    /\ up = "on" /\ up' = "stopping" /\ shown' = None
    /\ UNCHANGED <<code, last, loaded, file, saves, paired, fails, verifier, retired, unsaved>>
Stopped ==
    /\ up = "stopping" /\ up' = "stopped" /\ verifier' = None
    /\ IF paired = {} THEN Rotate ELSE UNCHANGED <<code, last, saves, retired>>
    /\ UNCHANGED <<loaded, file, shown, paired, fails, unsaved>>
\* It waits for its own save.
Off ==
    /\ up = "stopped" /\ code \notin { saves[i] : i \in DOMAIN saves } /\ up' = "off"
    /\ UNCHANGED <<code, last, loaded, file, saves, shown, paired, fails, verifier, retired, unsaved>>
Crash ==
    /\ "crash" \in Faults /\ up # "off" /\ up' = "off"
    /\ saves' = <<>> /\ unsaved' = (unsaved \/ saves # <<>>) /\ shown' = None /\ verifier' = None
    /\ UNCHANGED <<code, last, loaded, file, paired, fails, retired>>

Next ==
    \/ Load \/ StartFails \/ Ready \/ SetupBegins \/ Proved \/ NotProved
    \/ \E c \in Controllers : Pair(c) \/ AddController(c) \/ Unpair(c)
    \/ \E i \in DOMAIN saves : Saved(i)
    \/ StopBegins \/ Stopped \/ Off \/ Crash
Spec == Init /\ [][Next]_vars

-----------------------------------------------------------------------------
(* Properties.                                                               *)

Codes == 1..MaxCodes
TypeOK ==
    /\ up \in {"off", "starting", "on", "stopping", "stopped"}
    /\ {code, loaded, file, shown} \subseteq Codes \cup {None} /\ last \in 0..MaxCodes
    /\ saves \in Seq(Codes) /\ paired \subseteq Controllers /\ fails \in 0..MaxFailures - 1
    /\ verifier \in {None} \cup [code : Codes, proved : BOOLEAN]
    /\ retired \subseteq Codes /\ unsaved \in BOOLEAN

\* While the doorbell waits to be paired, and only then, the options page shows
\* a code, and it is the one that pairs (_show_pairing, _hide_pairing).
ShowsTheCode == (up = "on" => shown = IF paired = {} THEN code ELSE None) /\ (up = "off" => shown = None)

\* A code that was replaced, since its controller left, since too many were
\* guessed or since HomeKit went off unpaired, pairs nobody again
\* (_rotate_pin); a restart brings it back only if its save was lost.
PairsWithCurrent ==
    \A c \in Controllers : c \in paired' /\ paired = {} => verifier.code \notin retired \/ unsaved
RetiredStays == [][PairsWithCurrent]_vars

\* What a restart loads is the code in force (_store_pin).
FileFollows == saves = <<>> /\ ~unsaved /\ up # "off" => file = code
=============================================================================
