---------------------------- MODULE VerifyCommand ----------------------------
(***************************************************************************)
(* Custody of a signed bundle: `keygen` and `generate` and people move the *)
(* key files and one bundle, and `cargo evidence verify` says what it      *)
(* makes of them, with either of its two implementations (the envelope of  *)
(* the human and JSON formats, and the JSONL stream).                      *)
(*                                                                         *)
(* verify only reads, so it has no action: in every state it is asked with *)
(* every combination of its flags.  What the unsigned checks of the        *)
(* library find in the bundle is one of a few outcomes.                    *)
(***************************************************************************)
EXTENDS Keygen, FiniteSets

CONSTANT LastEdit   \* bound on the edits of the signed files

VARIABLES
    bundle,     \* the bundle directory
    signing,    \* the key generate has signed with and still compares, or Nil
    vouched     \* the bundle was reported with GENERATE_OK

custodyVars == <<bundle, signing, vouched>>
keyringVars == <<keyVars, custodyVars>>

\* `envelope` is the version of SHA256SUMS and index.json; `runtime` says that
\* the checks cannot run, `findings` what they find.
NoBundle == [made |-> FALSE, profile |-> "dev", sig |-> Nil, envelope |-> 0,
             runtime |-> FALSE, findings |-> {}]

-----------------------------------------------------------------------------
(* cmd_verify.  A call has a --strict flag and an explicit key: None, a key,*)
(* or Torn for a path that holds none (--verify-key, or the environment).   *)

None == "none"

\* What stands for no key and for no signature is neither.
ASSUME NoneIsNoFile == None \notin Keys \cup {Nil, Torn}
ASSUME SignaturesAreRecords ==
    LastEdit \in Nat /\ \A k \in Keys, e \in 0..LastEdit : [key |-> k, envelope |-> e] \notin {Nil, Torn}

Calls == [strict : BOOLEAN, key : Keys \cup {Torn, None}]

\* Faulty variant: the committed key is always consulted.
ResolvedKey_AlwaysAnchor(call) ==
    IF call.key # None THEN call.key ELSE IF pub = Nil THEN None ELSE pub

\* resolve_verify_key_path: the committed key is consulted if there is a signature.
ResolvedKey(call) ==
    IF call.key # None THEN call.key
    ELSE IF bundle.sig = Nil \/ pub = Nil THEN None
    ELSE pub

StrictRefuses(call) == call.strict /\ bundle.sig = Nil /\ ResolvedKey(call) = None

SignedBy(key) == bundle.sig = [key |-> key, envelope |-> bundle.envelope]

\* verify_bundle_with_key: a BUNDLE.sig that is no hex text is an error.
LibraryErrs(key) == bundle.runtime \/ (key # None /\ bundle.sig = Torn)
LibraryFindings(key) ==
    bundle.findings \cup (IF key # None /\ ~SignedBy(key) THEN {"SignatureInvalid"} ELSE {})

Tolerated == IF bundle.profile = "dev" THEN {"Prerelease"} ELSE {}

\* Faulty variant: one tolerated finding excuses the others.
HumanVerdict_AnyTolerated(key) ==
    IF LibraryErrs(key) THEN 2
    ELSE IF LibraryFindings(key) = {} \/ LibraryFindings(key) \cap Tolerated # {} THEN 0 ELSE 2

\* What the human and JSON formats make of the library's answer.  Of its three kinds
\* VerifyResult::Skipped is made nowhere but in tests: no call comes to its arms.
HumanVerdict(key) ==
    IF ~LibraryErrs(key) /\ LibraryFindings(key) \subseteq Tolerated THEN 0 ELSE 2

\* Exit code 1: the tool could not run; 2: the bundle failed.
HumanExit(call) ==
    LET key == ResolvedKey(call) IN
    IF ~bundle.made THEN 1
    ELSE IF StrictRefuses(call) THEN 2
    ELSE IF key = Torn THEN 1
    ELSE HumanVerdict(key)

Terminal(call) ==
    LET key == ResolvedKey(call) IN
    IF ~bundle.made THEN "VERIFY_ERROR"
    ELSE IF StrictRefuses(call) THEN "VERIFY_FAIL"
    ELSE IF key = Torn \/ LibraryErrs(key) THEN "VERIFY_ERROR"
    ELSE IF \E f \in LibraryFindings(key) : f \notin Tolerated THEN "VERIFY_FAIL"
    ELSE "VERIFY_OK"

JsonlExit(call) == [VERIFY_OK |-> 0, VERIFY_ERROR |-> 1, VERIFY_FAIL |-> 2][Terminal(call)]

-----------------------------------------------------------------------------
(* What happens to the bundle.                                             *)

CustodyInit == KeygenInit /\ bundle = NoBundle /\ signing = Nil /\ vouched = FALSE

\* generate up to the signature.  Only a dev run goes on without a key; the
\* bundle may have any content (Bundle says how it comes about).
Generate ==
    /\ ~bundle.made
    /\ \E profile \in {"dev", "cert"}, runtime \in BOOLEAN,
          findings \in SUBSET {"Prerelease", "Content"} :
        bundle' = [NoBundle EXCEPT !.made = TRUE, !.profile = profile,
                                   !.runtime = runtime, !.findings = findings]
    /\ UNCHANGED <<keyVars, signing, vouched>>

Releasable == ~bundle.runtime /\ bundle.findings \subseteq Tolerated

\* finalize_and_sign without a key, and the closure.
FinishUnsigned ==
    /\ bundle.made /\ bundle.sig = Nil /\ bundle.envelope = 0
    /\ priv = Nil /\ bundle.profile = "dev" /\ Releasable
    /\ vouched' = TRUE
    /\ UNCHANGED <<keyVars, bundle, signing>>

\* sign_bundle with the private key as it is on disk now.
SignBundle ==
    /\ bundle.made /\ bundle.sig = Nil /\ bundle.envelope = 0 /\ ~vouched
    /\ priv \in Keys
    /\ bundle' = [bundle EXCEPT !.sig = [key |-> priv, envelope |-> 0]]
    /\ signing' = priv
    /\ UNCHANGED <<keyVars, vouched>>

\* check_pubkey_anchor and the closure, with the public key as it is now.
CheckAnchor ==
    /\ signing # Nil
    /\ vouched' = (Releasable /\ pub \in {Nil, signing})
    /\ signing' = Nil
    /\ UNCHANGED <<keyVars, bundle>>

\* The bundle is edited or damaged once no run is at work on it.
EditEnvelope ==
    /\ bundle.made /\ signing = Nil /\ bundle.envelope < LastEdit
    /\ \E f \in SUBSET {"Prerelease", "Content"} :
        bundle' = [bundle EXCEPT !.envelope = @ + 1, !.findings = f]
    /\ vouched' = FALSE
    /\ UNCHANGED <<keyVars, signing>>

DamageSignature ==
    /\ bundle.sig # Nil /\ signing = Nil
    /\ \E s \in {Nil, Torn} : bundle' = [bundle EXCEPT !.sig = s]
    /\ vouched' = FALSE
    /\ UNCHANGED <<keyVars, signing>>

RemoveBundle ==
    /\ bundle.made /\ signing = Nil
    /\ bundle' = NoBundle /\ vouched' = FALSE
    /\ UNCHANGED <<keyVars, signing>>

CustodyNext ==
    \/ KeygenStep /\ UNCHANGED custodyVars
    \/ (LosePrivate \/ LosePublic) /\ UNCHANGED custodyVars
    \/ Generate \/ FinishUnsigned \/ SignBundle \/ CheckAnchor
    \/ EditEnvelope \/ DamageSignature \/ RemoveBundle

CustodySpec == CustodyInit /\ [][CustodyNext]_keyringVars

-----------------------------------------------------------------------------
(* Properties.                                                             *)

\* A pair of files that does not match is the trace of a keygen that failed or
\* died after it had written the private key (write_fresh_pair writes it first); so is
\* a public key in use that was not announced by create and that no line of the log
\* names (rotate_keypair replaces both files before append_log); and a private key that
\* was announced is readable by its owner only.
MismatchMeansAFailedKeygen ==
    /\ At("idle") /\ priv \in Keys /\ pub \in Keys /\ priv # pub => priv \in abandoned
    /\ At("idle") /\ pub \in Keys \ (created \cup abandoned) => \E i \in DOMAIN log : log[i] = pub
    /\ priv \in created \cup rotated => private

\* One public key takes the place of another only by a rotation, and every
\* rotation that was announced is in the log ("Refusing to silently regenerate
\* is the design point", keygen.rs): whatever failed before, whatever was lost.
ChainOfCustody ==
    [][/\ pub \in Keys /\ pub' \in Keys \ {pub} => keygen.mode = "rotate"
       /\ \A k \in rotated' : \E i \in DOMAIN log' : log'[i] = k]_keyringVars

\* A bundle reported with GENERATE_OK verifies without flags as long as it is
\* left alone and the committed public key is the one that signed it; when the
\* key has been rotated away, or another key signed it, it fails; with the key
\* that signed it named explicitly it verifies for ever, also under --strict.
GeneratedVerifies ==
    vouched =>
        /\ bundle.sig = Nil \/ pub \in {Nil, bundle.sig.key} =>
            Terminal([strict |-> FALSE, key |-> None]) = "VERIFY_OK"
        /\ bundle.sig # Nil =>
            /\ Terminal([strict |-> TRUE, key |-> bundle.sig.key]) = "VERIFY_OK"
            /\ pub \in Keys \ {bundle.sig.key} =>
                Terminal([strict |-> FALSE, key |-> None]) = "VERIFY_FAIL"

\* The two implementations of verify agree on what passes, and differ in the
\* exit code only where the checks cannot run.
FormatsAgree ==
    \A call \in Calls :
        /\ HumanExit(call) = 0 <=> JsonlExit(call) = 0
        /\ HumanExit(call) # JsonlExit(call) => Terminal(call) = "VERIFY_ERROR"
=============================================================================
