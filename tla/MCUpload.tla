------------------------------ MODULE MCUpload ------------------------------
(* Small instances of Upload. *)
EXTENDS Upload

CONSTANTS c1, c2

MCUserQueries == {"mine", "both"}
MCEmbeddedQueries == {"both"}

Flags(schema, qs, upload, reset, resetDB, enable) ==
    [schema |-> schema, queries |-> qs, upload |-> upload,
     reset |-> reset, resetDB |-> resetDB, enable |-> enable]

\* Every kind of file with and without a reset, each flag alone, and all at once.
OneRequest ==
    {Flags(kind, "none", "none", reset, FALSE, FALSE) :
        kind \in FileKind \ {"none"}, reset \in BOOLEAN}
    \cup {Flags("none", kind, "none", reset, FALSE, FALSE) :
        kind \in {"embedded", "good", "missing", "malformed", "empty", "badTemplate"},
        reset \in BOOLEAN}
    \cup {Flags("none", "none", kind, reset, FALSE, FALSE) :
        kind \in {"none", "unset", "good", "malformed"}, reset \in BOOLEAN}
    \cup {Flags("none", "none", "none", reset, TRUE, FALSE) : reset \in BOOLEAN}
    \cup {Flags("none", "none", "none", FALSE, FALSE, TRUE),
          Flags("good", "good", "good", TRUE, TRUE, TRUE),
          Flags("embedded", "embedded", "good", FALSE, FALSE, TRUE)}

\* Two at once: both enable the flag, one of them beside an upload; both reset and
\* one replaces what the other deletes.
TwoRequests ==
    {[r |-> Flags("none", "none", "good", FALSE, FALSE, TRUE),
      s |-> Flags("none", "none", "none", FALSE, FALSE, TRUE)],
     [r |-> Flags("good", "none", "none", TRUE, FALSE, FALSE),
      s |-> Flags("none", "none", "none", TRUE, FALSE, FALSE)]}

\* The second operator stays away, or both are at work.
Nothing == Flags("none", "none", "none", FALSE, FALSE, FALSE)
MCRequests ==
    {[c \in Client |-> IF c = c1 THEN r ELSE Nothing] : r \in OneRequest}
    \cup {[c \in Client |-> IF c = c1 THEN both.r ELSE both.s] : both \in TwoRequests}
=============================================================================
