--------------------------- MODULE SessionRegistry --------------------------
(***************************************************************************)
(* pv/mcp/sessionregistry.cpp: the sessions MCP clients can name.  Entries *)
(* are found by the address of the session object, which a later object    *)
(* may get again; ids are given once.  A registry is a record; each        *)
(* operation is a function from one registry to the next.                  *)
(***************************************************************************)
EXTENDS Naturals, FiniteSets

CONSTANT NoSession

EmptyRegistry == [entries |-> << >>, next |-> 1, active |-> 0]

Registered(reg) == DOMAIN reg.entries

AddEntry(reg, s) ==
    [entries |-> [t \in Registered(reg) \union {s} |->
                    IF t = s THEN [id |-> reg.next, generation |-> 1] ELSE reg.entries[t]],
     next |-> reg.next + 1, active |-> reg.next]

\* The id s is registered under, or 0.
IdOf(reg, s) == IF s \in Registered(reg) THEN reg.entries[s].id ELSE 0

\* Mutant: the entry of a removed session stays the active one.
RemoveEntryOnly(reg, s) ==
    [reg EXCEPT !.entries = [t \in Registered(reg) \ {s} |-> reg.entries[t]]]

RemoveEntry(reg, s) ==
    [entries |-> [t \in Registered(reg) \ {s} |-> reg.entries[t]],
     next |-> reg.next,
     active |-> IF reg.active = IdOf(reg, s) THEN 0 ELSE reg.active]

Activate(reg, s) == [reg EXCEPT !.active = IdOf(reg, s)]

\* Mutant: only the active session counts its changes.
BumpActive(reg, s) ==
    IF s \in Registered(reg) /\ IdOf(reg, s) = reg.active
    THEN [reg EXCEPT !.entries[s].generation = @ + 1] ELSE reg

Bump(reg, s) ==
    IF s \in Registered(reg) THEN [reg EXCEPT !.entries[s].generation = @ + 1] ELSE reg

\* The session an id stands for; 0 is no id.
Resolve(reg, id) ==
    LET found == {s \in Registered(reg) : reg.entries[s].id = id}
    IN IF found = {} THEN NoSession ELSE CHOOSE s \in found : TRUE
=============================================================================
