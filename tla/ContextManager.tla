--------------------------- MODULE ContextManager ---------------------------
(***************************************************************************)
(* Context::ContextManager, the map from lua_State pointers to the Context *)
(* that every hook and every wrapper of the API looks up: lldebug_open,    *)
(* lldebug_close and NewThread, and Lua's collector, which frees a         *)
(* coroutine without telling the map.  A lua_State is its address, and     *)
(* malloc may give a freed address to anyone.                              *)
(***************************************************************************)
EXTENDS FiniteSets, Functions

CONSTANTS
    Contexts,
    Addresses (* where a lua_State can be; not a Context                   *)

ASSUME ManagerAssumption ==
    /\ "none" \notin Contexts
    /\ {"none", "closed"} \cap Addresses = {}

VARIABLES
    map,     (* m_map                                                      *)
    owner,   (* the context in whose Lua universe an address is in use     *)
    main,    (* m_lua of each context                                      *)
    overlap  (* history: two contexts have been open at a time             *)

vars == <<map, owner, main, overlap>>

None == "none"
Open == {c \in Contexts : main[c] \in Addresses}

TypeOK ==
    /\ map \in [DOMAIN map -> Contexts] /\ DOMAIN map \subseteq Addresses
    /\ owner \in [Addresses -> Contexts \cup {None}]
    /\ main \in [Contexts -> Addresses \cup {None, "closed"}]
    /\ overlap \in BOOLEAN

Init ==
    /\ map = [L \in {} |-> None]
    /\ owner = [L \in Addresses |-> None]
    /\ main = [c \in Contexts |-> None]
    /\ overlap = FALSE

-----------------------------------------------------------------------------
Find(L) == IF L \in DOMAIN map THEN map[L] ELSE None

(* Add: std::map::insert keeps an entry that is there already. *)
Added(c, L) ==
    IF c = None \/ L \in DOMAIN map THEN map
    ELSE [K \in DOMAIN map \cup {L} |-> IF K = L THEN c ELSE map[K]]

(* Mutant of Erased: only the entry of the main state goes. *)
ErasedMain(c) == Restrict(map, DOMAIN map \ {main[c]})

(* Erase: every entry of the context. *)
Erased(c) == Restrict(map, {L \in DOMAIN map : map[L] # c})

(* lldebug_open: Context::Initialize. *)
lldebug_open(c, L) ==
    /\ main[c] = None /\ owner[L] = None
    /\ owner' = [owner EXCEPT ![L] = c]
    /\ main' = [main EXCEPT ![c] = L]
    /\ map' = Added(c, L)
    /\ overlap' = (overlap \/ Open # {})

(* NewThread, for cocreate and lldebug_newthread: an error unless L is      *)
(* known.                                                                   *)
NewThread(L, NL) ==
    /\ owner[L] # None /\ owner[NL] = None
    /\ Find(L) # None
    /\ owner' = [owner EXCEPT ![NL] = owner[L]]
    /\ map' = Added(Find(L), NL)
    /\ UNCHANGED <<main, overlap>>

(* The collector frees a coroutine. *)
Collect(L) ==
    /\ owner[L] # None /\ main[owner[L]] # L
    /\ owner' = [owner EXCEPT ![L] = None]
    /\ UNCHANGED <<map, main, overlap>>

(* lldebug_close: Delete, and ~Context closes the Lua universe.  It does    *)
(* nothing unless the context found has L as its main state.                *)
lldebug_close(L) ==
    \E c \in Contexts :
       /\ Find(L) = c /\ main[c] = L
       /\ map' = Erased(c)
       /\ owner' = [K \in Addresses |-> IF owner[K] = c THEN None ELSE owner[K]]
       /\ main' = [main EXCEPT ![c] = "closed"]
       /\ UNCHANGED overlap

Next ==
    \/ \E c \in Contexts, L \in Addresses : lldebug_open(c, L)
    \/ \E L, NL \in Addresses : NewThread(L, NL)
    \/ \E L \in Addresses : Collect(L) \/ lldebug_close(L)

Spec == Init /\ [][Next]_vars

-----------------------------------------------------------------------------
(* Properties *)

(* context.cpp:109: "Find the Context object from a lua_State object."  A   *)
(* lua_State in use is found with the context it lives in.                  *)
FindsItsContext == \A L \in Addresses : owner[L] # None => Find(L) = owner[L]

(* Contexts used one after the other never meet each other's entries: what  *)
(* a coroutine leaves in the map goes with its context (context.cpp:99).    *)
OneAtATimeIsFound == ~overlap => FindsItsContext

(* A context that was closed is in no entry: no pointer keeps it alive, and *)
(* no hook of another context calls it (context.cpp:291).                   *)
ClosedIsForgotten == \A L \in DOMAIN map : main[map[L]] # "closed"

=============================================================================
