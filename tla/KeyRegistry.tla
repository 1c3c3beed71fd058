----------------------------- MODULE KeyRegistry -----------------------------
(***************************************************************************)
(* keyRegistry (keys.go): bearer tokens resolved to named clients through  *)
(* a keys file that is edited while the broker runs and read again at most *)
(* once per interval. A file is the sequence of its entries; a time stamp  *)
(* is the clock's reading when it was written.                             *)
(***************************************************************************)
EXTENDS Naturals, FiniteSets, SequencesExt

CONSTANTS
    KeyFiles,      \* the contents that the keys file may get
    Implicit,      \* the entry of --api-key, as a sequence of one or none
    StatInterval,  \* keyRegistryStatInterval
    MaxClock,      \* bound on time
    Nobody         \* the identity of a caller whose token is not accepted

ASSUME KeyAssumption == StatInterval \in Nat \ {0} /\ MaxClock \in Nat /\ Len(Implicit) <= 1

VARIABLES
    clock,   \* time.Now
    file,    \* the keys file: content, mtime, whether it is readable, and since when
             \* it has been as it is
    reg      \* entries, mtime, size and checked of the registry

keyVars == <<clock, file, reg>>

Roles == {"admin", "client"}

\* Of a file's length, only that it may stay the same when a key is replaced.
Size(content) == Len(content)

WithRole(e) == [e EXCEPT !.role = IF @ = "" THEN "client" ELSE @]

\* parseKeysFile and rejectImplicitKeyCollision: is the content accepted?
Valid(content) ==
    LET all == Implicit \o content
    IN  /\ \A i \in 1..Len(content) :
              content[i].name # "" /\ content[i].key # "" /\ WithRole(content[i]).role \in Roles
        /\ \A i, j \in 1..Len(all) :
              i # j => all[i].name # all[j].name /\ all[i].key # all[j].key

Parsed(content) == [i \in 1..Len(content) |-> WithRole(content[i])]

\* resolve: the first enabled entry with this key, the implicit one included.
Resolve(entries, token) ==
    LET all     == Implicit \o entries
        matches == {i \in 1..Len(all) : all[i].key = token /\ ~all[i].disabled}
    IN  IF matches = {} THEN Nobody
        ELSE LET e == all[Min(matches)] IN [name |-> e.name, role |-> e.role]

\* Mutant of Changed: a new file has a new length.
ChangedBySize == Size(file.content) # reg.size

Changed == file.mtime # reg.mtime \/ Size(file.content) # reg.size

\* currentEntries: what the registry is after a request has asked it.
Reloaded ==
    IF clock < reg.checked + StatInterval THEN reg
    ELSE IF ~file.readable \/ ~Changed \/ ~Valid(file.content)
         THEN [reg EXCEPT !.checked = clock]
         ELSE [entries |-> Parsed(file.content),
               mtime |-> file.mtime, size |-> Size(file.content), checked |-> clock]

\* newKeyRegistry: a file that is not accepted at startup is a hard error.
KeyInit ==
    /\ clock = 0
    /\ \E content \in {c \in KeyFiles : Valid(c)} :
          /\ file = [content |-> content, mtime |-> 0, readable |-> TRUE, since |-> 0]
          /\ reg = [entries |-> Parsed(content), mtime |-> 0, size |-> Size(content), checked |-> 0]

\* Somebody writes the file, or changes its permissions.
Edit ==
    /\ \E content \in KeyFiles, ok \in BOOLEAN :
          /\ content # file.content \/ ok # file.readable
          /\ file' = [content |-> content, readable |-> ok, since |-> clock,
                      mtime |-> IF content = file.content THEN file.mtime ELSE clock]
    /\ UNCHANGED <<clock, reg>>

Tick ==
    /\ clock < MaxClock
    /\ clock' = clock + 1
    /\ UNCHANGED <<file, reg>>

\* The file can be loaded: it is valid, and it is not a second file of the same
\* length written within one tick of the time stamps, which nothing tells apart.
Loadable ==
    /\ file.readable /\ Valid(file.content)
    /\ \/ file.mtime # reg.mtime \/ Size(file.content) # reg.size
       \/ Parsed(file.content) = reg.entries
=============================================================================
