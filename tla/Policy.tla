------------------------------- MODULE Policy -------------------------------
(***************************************************************************)
(* The effective policy (config/config.go): a configuration file over      *)
(* defaults, a profile that is named explicitly, by the environment or by  *)
(* the file, and what the file and the environment set over the profile.   *)
(* A setting that is not given is Unset, and may be written so.            *)
(***************************************************************************)
EXTENDS Integers, Sequences

CONSTANTS Unset,       \* the empty string
          Profiles,    \* the settings of each built-in profile
          Defaults,    \* the settings of Defaults()
          Files,       \* configuration files: what they set
          Names,       \* that may be given for a profile
          Codecs, Ciphers,
          Units,       \* of sizes: B, KiB and so on, in bytes
          MaxRecordSize   \* 2^32 - 1 in the code

Settings == {"compression", "cipher", "size", "destination", "verify"}

\* A size is written as a number and a unit.
ConstantsAssumption ==
    /\ MaxRecordSize \in Nat /\ Units \subseteq Nat \ {0}
    /\ DOMAIN Defaults = Settings \cup {"profile"}
    /\ \A f \in Files : DOMAIN f \subseteq DOMAIN Defaults
    /\ \A f \in Files \cup {Defaults} :
          /\ "size" \in DOMAIN f => f.size \in {Unset} \cup (Nat \X Units)
          /\ "verify" \in DOMAIN f => f.verify \in BOOLEAN
    /\ \A n \in DOMAIN Profiles :
          /\ Profiles[n].verify \in BOOLEAN
          /\ Profiles[n] = [compression |-> Profiles[n].compression, cipher |-> Profiles[n].cipher,
                            size |-> Profiles[n].size, destination |-> Profiles[n].destination,
                            verify |-> Profiles[n].verify]

VARIABLES
    configured,    \* the file, or none, or one that cannot be decoded
    environment,   \* CYPHERSTORM_PROFILE, _COMPRESSION, _CIPHER, _VERIFY_AFTER
    named,         \* the profile asked for
    resolved

vars == <<configured, environment, named, resolved>>

Unresolved == [done |-> FALSE]
Failed == [done |-> TRUE, ok |-> FALSE]

Idle ==
    /\ configured = [there |-> FALSE, sets |-> [x \in {} |-> Unset]]
    /\ environment = [x \in {} |-> Unset]
    /\ named = Unset /\ resolved = Unresolved

-----------------------------------------------------------------------------
\* Faulty: a number that fits is multiplied without another look.
NumberFits(size) == size[1] \in 1..MaxRecordSize

\* parseByteSize: a number and a unit.
SizeFits(size) == size[1] \in 1..MaxRecordSize /\ size[1] <= MaxRecordSize \div size[2]

ByteSize(size) == (size[1] * size[2]) % (MaxRecordSize + 1)

\* The file is decoded over the defaults.
Config ==
    [x \in DOMAIN Defaults |->
        IF x \in DOMAIN configured.sets THEN configured.sets[x] ELSE Defaults[x]]

\* Faulty: the file's settings apply to whatever profile.
AnyProfile == TRUE

\* Neither the command line nor the environment names a profile.
ProfileIsImplicit == named = Unset /\ environment.profile = Unset

ProfileName ==
    IF named # Unset THEN named
    ELSE IF environment.profile # Unset THEN environment.profile ELSE Config.profile

Over(value, base) == IF value # Unset THEN value ELSE base

\* What the file sets over the profile, once.
FromFile(base) ==
    IF ~ProfileIsImplicit THEN base
    ELSE [compression |-> Over(Config.compression, base.compression),
          cipher |-> Over(Config.cipher, base.cipher),
          size |-> IF Config.size # Unset THEN ByteSize(Config.size) ELSE base.size,
          destination |-> Config.destination,
          verify |-> base.verify \/ Config.verify]

FromEnvironment(base) ==
    [base EXCEPT !.compression = Over(environment.compression, @),
                 !.cipher = Over(environment.cipher, @),
                 !.verify = @ \/ environment.verify]

\* Resolve.
Resolve ==
    /\ ~resolved.done
    /\ resolved' =
          IF \/ configured.there /\ ~configured.decodes
             \/ ProfileName \notin DOMAIN Profiles
             \/ ProfileIsImplicit /\ Config.size # Unset /\ ~SizeFits(Config.size)
          THEN Failed
          ELSE [done |-> TRUE, ok |-> TRUE,
                policy |-> FromEnvironment(FromFile(Profiles[ProfileName]))]
    /\ UNCHANGED <<configured, environment, named>>

-----------------------------------------------------------------------------
Init ==
    /\ configured \in {[there |-> FALSE, sets |-> [x \in {} |-> Unset]]}
                        \cup [there : {TRUE}, decodes : BOOLEAN, sets : Files]
    /\ environment \in [profile : Names, compression : Codecs \cup {Unset},
                        cipher : Ciphers \cup {Unset}, verify : BOOLEAN]
    /\ named \in Names
    /\ resolved = Unresolved

Next == Resolve

Spec == Init /\ [][Next]_vars

-----------------------------------------------------------------------------
(* Properties. *)

First(layers) ==
    LET given == {i \in DOMAIN layers : layers[i] # Unset}
    IN  IF given = {} THEN Unset ELSE layers[CHOOSE i \in given : \A j \in given : i <= j]

\* Every setting is that of the foremost layer that has one, the environment, then
\* the file and the defaults unless a profile was asked for, then the profile; the
\* record size is the number of bytes that was written, never a remainder of it;
\* and nothing takes back the verification that another layer asks for.  A policy
\* is refused only for a profile that does not exist, or a file or a size that
\* cannot be read (config.go:108-193).
PolicyIsLayered ==
    LET implicit == named = Unset /\ environment.profile = Unset
        ofFile(x) == IF implicit THEN Config[x] ELSE Unset
        name == First(<<named, environment.profile, Config.profile>>)
        readable == /\ configured.there => configured.decodes
                    /\ name \in DOMAIN Profiles
                    /\ ofFile("size") # Unset => Config.size[1] * Config.size[2] \in 1..MaxRecordSize
    IN  resolved.done =>
           /\ resolved.ok <=> readable
           /\ resolved.ok =>
                 LET base == Profiles[name] IN
                 resolved.policy =
                    [compression |-> First(<<environment.compression, ofFile("compression"),
                                             base.compression>>),
                     cipher |-> First(<<environment.cipher, ofFile("cipher"), base.cipher>>),
                     size |-> IF ofFile("size") # Unset THEN Config.size[1] * Config.size[2]
                              ELSE base.size,
                     destination |-> IF implicit THEN Config.destination ELSE base.destination,
                     verify |-> environment.verify \/ base.verify \/ (implicit /\ Config.verify)]
=============================================================================
