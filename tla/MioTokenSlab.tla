---------------------------- MODULE MioTokenSlab ----------------------------
(***************************************************************************)
(* The allocator of mio tokens (support/mio_token_slab.rs), a fixed number *)
(* of keys shared by the applications' file descriptors and by the client  *)
(* connections.  The slab crate hands out the most recently removed key    *)
(* first, so the vacant keys form a stack.  Tokens are opaque: the code    *)
(* only compares them, so any order will do for the first ones.            *)
(***************************************************************************)
EXTENDS Integers, Sequences, Functions

CONSTANTS
    Tokens,                 \* as many as GlobalConfig::max_mio_tokens
    SlabOrder,              \* the order in which they are first handed out
    UNIX_LISTENER_TOKEN,
    LOG_LISTENER_TOKEN,
    SIGNALFD_TOKEN,         \* reserved tokens, never allocated
    NoToken

ReservedTokens ==
    {UNIX_LISTENER_TOKEN, LOG_LISTENER_TOKEN, SIGNALFD_TOKEN}

ASSUME TokensAssumption ==
    /\ SlabOrder \in Seq(Tokens)
    /\ IsInjective(SlabOrder) /\ Range(SlabOrder) = Tokens
    /\ UNIX_LISTENER_TOKEN # SIGNALFD_TOKEN
    /\ LOG_LISTENER_TOKEN \notin {UNIX_LISTENER_TOKEN, SIGNALFD_TOKEN}
    /\ Tokens \cap ReservedTokens = {}
    /\ NoToken \notin Tokens \cup ReservedTokens

VARIABLE vacant             \* the stack of unallocated tokens, top first

max_mio_tokens == Len(SlabOrder)

(* MioTokenSlab::new *)
SlabInit == vacant = SlabOrder

(* Mutant: the last token handed out stays vacant. *)
Allocate_OneShort(s, n) == SubSeq(s, IF n = 0 THEN 1 ELSE n, Len(s))

(* What n calls of allocate leave of the stack s; they return s[1], s[2], ... *)
Allocate(s, n) == SubSeq(s, n + 1, Len(s))

(* free; Slab::remove panics when the key is vacant already, see Freeable. *)
Free(s, t) == <<t>> \o s

Freeable(s, t) == t \in Tokens /\ t \notin Range(s)
=============================================================================
