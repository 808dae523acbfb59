----------------------------- MODULE ManagedKeys -----------------------------
(***************************************************************************)
(* lib/managed_api_keys.py: every request reads the files of every slot    *)
(* again, a grant and then a verifier, slot after slot, while the files    *)
(* are replaced one at a time.  A component of Requests, which takes the   *)
(* steps of its reader.                                                    *)
(*                                                                         *)
(* A verifier, the digest of a secret, is identified with the secret.  A   *)
(* slot without paths is no slot here, and one with a single path has a    *)
(* file that is Missing.                                                   *)
(***************************************************************************)
EXTENDS Integers, Sequences

CONSTANTS
    Reader,         \* the threads that read the slots
    NSlots,         \* the number of managed_registrations
    Descriptor,     \* valid grants: records of a client and a set of permissions
    Secret,
    Malformed,      \* the content of a file that does not parse
    Garbled,        \* that of one that is not UTF-8
    Missing,        \* that of one that cannot be read
    Blank,          \* that of a verifier of white space
    NoFile          \* no grant has been read in this slot yet

VARIABLES
    grantFile, verifierFile,    \* the content of each slot's files
    reading     \* reading[t]: how far reader t is and what it has loaded

files == <<grantFile, verifierFile>>

Slot == 1..NSlots
GrantContent == Descriptor \cup {Malformed, Garbled, Missing}
VerifierContent == Secret \cup {Blank, Malformed, Garbled, Missing}

\* An entry the reader has loaded, and where it was.
Entry == [slot : Slot, key : Descriptor, verifier : Secret]

\* "configuration" is ManagedApiKeyConfigurationError, "decoding" an error
\* the caller does not expect.
Fault == {"none", "configuration", "decoding"}

Unread == [slot |-> 1, grant |-> NoFile, loaded |-> <<>>, fault |-> "none"]

Init ==
    /\ grantFile \in [Slot -> GrantContent] /\ verifierFile \in [Slot -> VerifierContent]
    /\ reading = [t \in Reader |-> Unread]

-----------------------------------------------------------------------------
(* The owner of the files                                                  *)

ReplaceGrant(s, content) ==
    /\ content # grantFile[s]
    /\ grantFile' = [grantFile EXCEPT ![s] = content]
    /\ UNCHANGED <<verifierFile, reading>>

ReplaceVerifier(s, content) ==
    /\ content # verifierFile[s]
    /\ verifierFile' = [verifierFile EXCEPT ![s] = content]
    /\ UNCHANGED <<grantFile, reading>>

-----------------------------------------------------------------------------
(* A reader                                                                *)

Reading(t) == reading[t].fault = "none" /\ reading[t].slot \in Slot

FaultOf(content) == IF content = Garbled THEN "decoding" ELSE "configuration"

Fail(t, fault) == reading' = [reading EXCEPT ![t].fault = fault]

ReadGrant(t) ==
    /\ Reading(t) /\ reading[t].grant = NoFile
    /\ LET content == grantFile[reading[t].slot]
       IN  IF content \in {Garbled, Missing}
           THEN Fail(t, FaultOf(content))
           ELSE reading' = [reading EXCEPT ![t].grant = content]
    /\ UNCHANGED files

NextSlot(t, more) ==
    reading' = [reading EXCEPT ![t] =
        [slot |-> @.slot + 1, grant |-> NoFile, loaded |-> @.loaded \o more, fault |-> @.fault]]

\* A slip: a slot that does not parse is skipped.
SkipInvalid(t) ==
    /\ Reading(t) /\ reading[t].grant # NoFile
    /\ LET s == reading[t].slot
           grant == reading[t].grant
           content == verifierFile[s]
       IN  IF content \in {Garbled, Missing} THEN Fail(t, FaultOf(content))
           ELSE IF content = Blank \/ Malformed \in {grant, content} THEN NextSlot(t, <<>>)
           ELSE NextSlot(t, <<[slot |-> s, key |-> grant, verifier |-> content]>>)
    /\ UNCHANGED files

\* A blank verifier disables the slot, whatever its grant.
ReadVerifier(t) ==
    /\ Reading(t) /\ reading[t].grant # NoFile
    /\ LET s == reading[t].slot
           grant == reading[t].grant
           content == verifierFile[s]
       IN  IF content \in {Garbled, Missing} THEN Fail(t, FaultOf(content))
           ELSE IF content = Blank THEN NextSlot(t, <<>>)
           ELSE IF Malformed \in {grant, content} THEN Fail(t, "configuration")
           ELSE NextSlot(t, <<[slot |-> s, key |-> grant, verifier |-> content]>>)
    /\ UNCHANGED files

Loaded(t) == {reading[t].loaded[i] : i \in DOMAIN reading[t].loaded}

\* Two active slots with one verifier: match() refuses them all.
Duplicates(entries) == \E d, e \in entries : d.slot # e.slot /\ d.verifier = e.verifier

Matching(t, secret) == {e \in Loaded(t) : e.verifier = secret}

\* A slip: what has been loaded is kept for the next request.
Remember(t) == UNCHANGED <<reading, files>>

Forget(t) == reading' = [reading EXCEPT ![t] = Unread] /\ UNCHANGED files

-----------------------------------------------------------------------------
(* What the files say at one instant, whoever reads them                   *)

Active(s) == grantFile[s] \in Descriptor /\ verifierFile[s] \in Secret

Configured ==
    {[slot |-> s, key |-> grantFile[s], verifier |-> verifierFile[s]] :
        s \in {r \in Slot : Active(r)}}

\* A slot that makes every reader fail.
Broken(s) ==
    \/ {grantFile[s], verifierFile[s]} \cap {Garbled, Missing} # {}
    \/ verifierFile[s] # Blank /\ ~ Active(s)

TypeOK ==
    /\ grantFile \in [Slot -> GrantContent] /\ verifierFile \in [Slot -> VerifierContent]
    /\ \A t \in Reader :
        /\ reading[t].slot \in 1..(NSlots + 1) /\ reading[t].fault \in Fault
        /\ reading[t].grant \in Descriptor \cup {Malformed, NoFile}
        /\ reading[t].loaded \in Seq(Entry)
==============================================================================
