-------------------------------- MODULE Keygen --------------------------------
(***************************************************************************)
(* `cargo evidence keygen`: the two key files and the rotation log under   *)
(* cert/, written one after the other by a process that may fail or die    *)
(* between any two of them, or in the middle of one.  One keygen runs at a *)
(* time; what other programs do with the files happens in between.         *)
(***************************************************************************)
EXTENDS Naturals, Sequences, FileMarks

CONSTANT Keys   \* the ed25519 key pairs that will ever be drawn; a pair is one value

ASSUME FilesAreNoKeys == Nil # Torn /\ {Nil, Torn} \cap Keys = {}

VARIABLES
    priv, pub,  \* signing.key, signing.pub
    private,    \* signing.key is readable by its owner only
    log,        \* KEY-ROTATION-LOG: the public keys of its lines
    keygen,     \* the keygen under way: step, mode, the key it has drawn
    drawn,      \* keys drawn so far
    created,    \* keys announced as created with KEYGEN_OK
    rotated,    \* keys announced as rotated to with KEYGEN_OK
    abandoned   \* keys of the runs that ended in KEYGEN_FAIL or died

keyVars == <<priv, pub, private, log, keygen, drawn, created, rotated, abandoned>>

NoKeygen == [step |-> "idle", mode |-> "create", key |-> Nil]

KeygenInit ==
    /\ priv = Nil /\ pub = Nil /\ private = FALSE /\ log = <<>>
    /\ keygen = NoKeygen
    /\ drawn = {} /\ created = {} /\ rotated = {} /\ abandoned = {}

At(step) == keygen.step = step
Goto(step) == keygen' = [keygen EXCEPT !.step = step]

\* Faulty variant: create looks at the private key only.
MayCreate_PrivateOnly == priv = Nil

\* create_keypair refuses if either file exists, rotate_keypair if either is
\* missing; a refusal is KEYGEN_FAIL and changes nothing.
MayCreate == priv = Nil /\ pub = Nil
MayRotate == priv # Nil /\ pub # Nil

\* cmd_keygen up to the first write: the checks, the directory, the fresh key.
BeginKeygen(mode) ==
    /\ At("idle")
    /\ IF mode = "create" THEN MayCreate ELSE MayRotate
    /\ \E k \in Keys \ drawn :
        /\ drawn' = drawn \cup {k}
        /\ keygen' = [step |-> "priv", mode |-> mode, key |-> k]
    /\ UNCHANGED <<priv, pub, private, log, created, rotated, abandoned>>

\* Faulty variant: the public key is not written when it is there already.
WritePublic_IfMissing ==
    /\ At("pub") /\ Goto("chmod")
    /\ pub' = IF pub = Nil THEN keygen.key ELSE pub
    /\ UNCHANGED <<priv, private, log, drawn, created, rotated, abandoned>>

\* write_fresh_pair: a new private key file has the mode of the umask, one that
\* is written over keeps its mode.
WritePrivate ==
    /\ At("priv") /\ Goto("pub")
    /\ priv' = keygen.key
    /\ private' = (priv # Nil /\ private)
    /\ UNCHANGED <<pub, log, drawn, created, rotated, abandoned>>

WritePublic ==
    /\ At("pub") /\ Goto("chmod")
    /\ pub' = keygen.key
    /\ UNCHANGED <<priv, private, log, drawn, created, rotated, abandoned>>

ChmodPrivate ==
    /\ At("chmod") /\ priv # Nil    \* metadata() needs the file
    /\ Goto(IF keygen.mode = "rotate" THEN "log" ELSE "done")
    /\ private' = TRUE
    /\ UNCHANGED <<priv, pub, log, drawn, created, rotated, abandoned>>

AppendLog ==
    /\ At("log") /\ Goto("done")
    /\ log' = Append(log, keygen.key)
    /\ UNCHANGED <<priv, pub, private, drawn, created, rotated, abandoned>>

\* KEYGEN_OK.
Announce ==
    /\ At("done")
    /\ IF keygen.mode = "create"
       THEN created' = created \cup {keygen.key} /\ UNCHANGED rotated
       ELSE rotated' = rotated \cup {keygen.key} /\ UNCHANGED created
    /\ keygen' = NoKeygen
    /\ UNCHANGED <<priv, pub, private, log, drawn, abandoned>>

\* KEYGEN_FAIL out of any step, or the death of the process: the file of the
\* step is as it was, or truncated and written in part.
AbandonKeygen ==
    /\ ~At("idle")
    /\ \/ UNCHANGED <<priv, pub, private, log>>
       \/ At("priv") /\ priv' = Torn /\ private' = (priv # Nil /\ private) /\ UNCHANGED <<pub, log>>
       \/ At("pub") /\ pub' = Torn /\ UNCHANGED <<priv, private, log>>
       \/ At("log") /\ log' = Append(log, Torn) /\ UNCHANGED <<priv, pub, private>>
    /\ abandoned' = abandoned \cup {keygen.key}
    /\ keygen' = NoKeygen
    /\ UNCHANGED <<drawn, created, rotated>>

KeygenStep ==
    \/ \E mode \in {"create", "rotate"} : BeginKeygen(mode)
    \/ WritePrivate \/ WritePublic \/ ChmodPrivate \/ AppendLog \/ Announce \/ AbandonKeygen

\* Somebody deletes a key file, or clones the repository: the public key and
\* the log are committed, the private key is not.
LosePrivate ==
    /\ priv # Nil /\ priv' = Nil
    /\ UNCHANGED <<pub, private, log, keygen, drawn, created, rotated, abandoned>>
LosePublic ==
    /\ pub # Nil /\ pub' = Nil
    /\ UNCHANGED <<priv, private, log, keygen, drawn, created, rotated, abandoned>>
=============================================================================
