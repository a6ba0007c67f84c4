----------------------------- MODULE ProfileDrafts -----------------------------
(* Editing a routing profile (commands/router_user_strategies.py).  The editor *)
(* reads the profiles, then the keys, and works on a draft; saving sends the   *)
(* changed settings and then moves keys in batches, and any request may fail,  *)
(* before or after the server acted on it.  After a failure the draft is       *)
(* rebased on what the server has, and the user may save again.  Other         *)
(* commands change the account meanwhile.  Every key belongs to exactly one    *)
(* profile.                                                                    *)
EXTENDS FiniteSets, Integers

CONSTANTS
  ApiKeys,         \* API keys
  Late,            \* whether keys are made after the editor listed them
  Strategies,        \* routing profiles besides the default one
  Default,         \* the account's default profile
  Settings,        \* settings that are on or off
  Exclusive,       \* the pairs that exclude each other
  MaxFailures,     \* bound: requests that fail
  MaxTouches,      \* bound: edits of one draft
  MaxOthers,       \* bound: changes made by other commands
  NoProfile        \* the profile of a key, or of a draft, before it is made

ASSUME ProfileDraftsAssumption ==
  /\ Default \notin Strategies /\ NoProfile \notin Strategies \cup {Default}
  /\ Late \in BOOLEAN /\ MaxFailures \in Nat /\ MaxTouches \in Nat /\ MaxOthers \in Nat
  /\ \A pair \in Exclusive : pair \subseteq Settings
  /\ ApiKeys \cap Settings = {}

VARIABLES
  owner,      \* key -> its profile
  switched,   \* profile -> the settings it has on
  made,       \* the profiles there are
  gone,       \* the profiles that were deleted
  profileDraft,      \* the place of the draft, and its draft
  touched,    \* the keys and settings its user changed, and to what
  others,     \* what other commands changed since the editor was opened
  changes,    \* changes other commands made so far
  failures    \* requests that failed so far

server    == << owner, switched, made, gone >>
outside   == << others, changes >>
draftVars == << server, profileDraft, touched, outside, failures >>

\* The keys of a profile, as a response of the server lists them.
Assigned(p) == {k \in ApiKeys : owner[k] = p}

Closed == [at |-> "closed", id |-> NoProfile, keys |-> {}, base |-> {}, on |-> {}, baseOn |-> {},
           listed |-> {}, add |-> {}, drop |-> {}]

\* ProfileDraft.from_profile.
FromProfile(p) ==
  [Closed EXCEPT !.at = "opened", !.id = p, !.keys = Assigned(p), !.base = Assigned(p),
                 !.on = switched[p], !.baseOn = switched[p]]

Added(d)   == d.keys \ d.base
Removed(d) == d.base \ d.keys
EditedSettings(d)  == (d.on \ d.baseOn) \cup (d.baseOn \ d.on)

\* A mutant: the draft keeps the keys it has, and only its baseline is fresh.
RebasedWhole(d, keys, on) ==
  [d EXCEPT !.base = keys, !.baseOn = on, !.on = (on \ EditedSettings(d)) \cup (d.on \cap EditedSettings(d))]

\* A mutant: what is on the server replaces the draft.
RebasedAway(d, keys, on) ==
  [d EXCEPT !.keys = keys, !.base = keys, !.on = on, !.baseOn = on]

\* Only the user's edits are carried onto what the server has.
Rebase(d, keys, on) ==
  [d EXCEPT !.keys = (keys \cup Added(d)) \ Removed(d), !.base = keys,
            !.on = (on \ EditedSettings(d)) \cup (d.on \cap EditedSettings(d)), !.baseOn = on]

(*****************************************************************************)
(* The server.                                                               *)
(*****************************************************************************)

\* Keys join a profile.
MoveKeys(keys, p) ==
  /\ owner' = [k \in ApiKeys |-> IF k \in keys THEN p ELSE owner[k]]
  /\ UNCHANGED << switched, made, gone, outside >>

\* The settings of a profile, with those a draft changed.
Patched(d, on) == (on \ EditedSettings(d)) \cup (d.on \cap EditedSettings(d))

\* The server takes no two settings that exclude each other.
Allowed(on) == \A pair \in Exclusive : ~ pair \subseteq on

Patch(d) ==
  /\ d.id \in made /\ Allowed(Patched(d, switched[d.id]))
  /\ switched' = [switched EXCEPT ![d.id] = Patched(d, @)]
  /\ UNCHANGED << owner, made, gone, outside >>

Create(d, p) ==
  /\ p \in Strategies \ (made \cup gone) /\ made' = made \cup {p}
  /\ switched' = [switched EXCEPT ![p] = d.on]
  /\ UNCHANGED << owner, gone, outside >>

\* A profile is deleted, and its keys go back to the default profile.
Deleted(p) ==
  /\ made' = made \ {p} /\ gone' = gone \cup {p}
  /\ switched' = [switched EXCEPT ![p] = {}]

Returned(p) == [k \in ApiKeys |-> IF owner[k] = p THEN Default ELSE owner[k]]

(*****************************************************************************)
(* The editor.                                                               *)
(*****************************************************************************)

At(at) == profileDraft.at = at

Become(d) == profileDraft' = d

\* The user picks a profile, or asks for a new one.
Open ==
  /\ At("closed")
  /\ \/ \E p \in made : Become(FromProfile(p))
     \/ Become([Closed EXCEPT !.at = "opened"])
  /\ touched' = << >> /\ others' = {}
  /\ UNCHANGED << server, changes, failures >>

\* The keys are listed after the profiles, once.
ListKeys ==
  /\ At("opened")
  /\ Become([profileDraft EXCEPT !.at = "editing",
                                 !.listed = {k \in ApiKeys : owner[k] # NoProfile}])
  /\ UNCHANGED << server, touched, outside, failures >>

\* What the user changed in the draft is remembered with what she wants.
Touch(keys, on, d) ==
  /\ touched' = [x \in DOMAIN touched \cup keys \cup on |->
                   IF x \in keys THEN x \in d.keys ELSE IF x \in on THEN x \in d.on ELSE touched[x]]
  /\ UNCHANGED << server, outside, failures >>

\* The list of keys is confirmed, with one more key toggled or with none: the
\* draft gets the keys that are checked in it.
PickKeys ==
  LET d == profileDraft IN
  /\ At("editing") /\ Cardinality(DOMAIN touched) < MaxTouches
  /\ \E flip \in {{}} \cup {{k} : k \in d.listed} :
       LET chosen == ((d.keys \cap d.listed) \ flip) \cup (flip \ d.keys)
           picked == [d EXCEPT !.keys = IF d.id = Default /\ ~ d.base \subseteq chosen
                                        THEN chosen \cup d.base ELSE chosen]
       IN  Become(picked) /\ Touch(flip, {}, picked)

\* A setting is switched; the one it excludes goes off.
SetSetting ==
  LET d == profileDraft IN
  /\ At("editing") /\ Cardinality(DOMAIN touched) < MaxTouches
  /\ \E s \in Settings :
       LET off == IF s \in d.on THEN {s} ELSE UNION {pair \in Exclusive : s \in pair} \ {s}
           set == [d EXCEPT !.on = (@ \cup {s}) \ off]
       IN  Become(set) /\ Touch({}, {s} \cup (off \cap d.on), set)

\* The requests of a save: the settings, then the keys that join, then those
\* that go back to the default profile.
Then(d) == IF d.add # {} THEN "assigning" ELSE IF d.drop # {} THEN "returning" ELSE "saved"

Save ==
  LET d     == profileDraft
      ready == [d EXCEPT !.add = Added(d), !.drop = Removed(d)]
  IN  /\ At("editing")
      /\ d.id = NoProfile \/ EditedSettings(d) # {} \/ Added(d) # {} \/ Removed(d) # {}
      /\ d.id = Default => Removed(d) = {}
      /\ Become([ready EXCEPT !.at = IF d.id = NoProfile \/ EditedSettings(d) # {} THEN "writing"
                                        ELSE Then(ready)])
      /\ UNCHANGED << server, touched, outside, failures >>

\* The answer to a request arrives, or it does not: the profile is then read
\* again, if the draft has one.
Answered(d) == Become([d EXCEPT !.at = Then(d)]) /\ UNCHANGED << touched, failures >>

Failing ==
  /\ \E at \in IF profileDraft.id = NoProfile THEN {"editing", "closed"} ELSE {"reloading"} :
       Become([profileDraft EXCEPT !.at = at])
  /\ UNCHANGED touched

Unanswered == failures < MaxFailures /\ failures' = failures + 1 /\ Failing

WriteSettings ==
  LET d == profileDraft IN
  /\ At("writing")
  /\ \/ d.id = NoProfile /\ \E p \in Strategies :
          /\ Create(d, p)
          /\ Answered([d EXCEPT !.id = p]) \/ Unanswered
     \/ d.id # NoProfile /\ Patch(d) /\ (Answered(d) \/ Unanswered)

AssignKeys ==
  LET d == profileDraft IN
  /\ At("assigning") /\ d.id \in made
  /\ \E k \in d.add :
       /\ MoveKeys({k}, d.id)
       /\ Answered([d EXCEPT !.add = @ \ {k}]) \/ Unanswered

ReturnKeys ==
  LET d == profileDraft IN
  /\ At("returning")
  /\ \E k \in d.drop :
       /\ MoveKeys({k}, Default)
       /\ Answered([d EXCEPT !.drop = @ \ {k}]) \/ Unanswered

\* A request fails and changes nothing.
RequestFails ==
  /\ profileDraft.at \in {"writing", "assigning", "returning"} /\ Unanswered
  /\ UNCHANGED << server, outside >>

\* The server refuses a request for a profile that is gone, settings that
\* exclude each other, and (a bound) a profile more than there are names for.
Refused ==
  LET d == profileDraft IN
  /\ \/ At("writing") /\ d.id = NoProfile /\ Strategies \subseteq made \cup gone
     \/ d.id # NoProfile /\ profileDraft.at \in {"writing", "assigning"} /\ d.id \notin made
     \/ At("writing") /\ d.id \in made /\ ~ Allowed(Patched(d, switched[d.id]))
  /\ Failing /\ UNCHANGED << server, outside, failures >>

\* The draft is rebased on what the server has.  A failure of the connection
\* ends the command, as a profile that cannot be read does.
Reload ==
  LET d == profileDraft IN
  /\ At("reloading")
  /\ \/ d.id \in made /\ Become([Rebase(d, Assigned(d.id), switched[d.id]) EXCEPT !.at = "editing"])
     \/ Become(Closed)
  /\ UNCHANGED << server, touched, outside, failures >>

\* A save that moved keys back reads the profile once more.
Saved ==
  /\ At("saved")
  /\ \/ Become(Closed) /\ UNCHANGED << touched, failures >>
     \/ Removed(profileDraft) # {} /\ Unanswered
  /\ UNCHANGED << server, outside >>

\* The profile is deleted; its keys, if the draft knows of any, go to the
\* default profile, and the server deletes none that has keys otherwise.
Delete ==
  LET d == profileDraft IN
  /\ At("editing") /\ d.id \in made \ {Default}
  /\ d.base = {} => Assigned(d.id) = {}
  /\ Deleted(d.id) /\ owner' = Returned(d.id)
  /\ Become(Closed) /\ UNCHANGED << touched, outside, failures >>

\* The user leaves the editor.
Back ==
  /\ At("editing") /\ Become(Closed)
  /\ UNCHANGED << server, touched, outside, failures >>

(*****************************************************************************)
(* Other commands, in other terminals and on the web.                        *)
(*****************************************************************************)

Elsewhere(changed) ==
  /\ changes < MaxOthers /\ changes' = changes + 1
  /\ others' = others \cup changed /\ UNCHANGED << profileDraft, touched, failures >>

MoveElsewhere ==
  \E k \in ApiKeys, p \in made :
    /\ owner[k] \notin {p, NoProfile} /\ Elsewhere({k})
    /\ owner' = [owner EXCEPT ![k] = p] /\ UNCHANGED << switched, made, gone >>

SwitchElsewhere ==
  \E p \in made, s \in Settings :
    /\ s \in switched[p] \/ Allowed(switched[p] \cup {s})
    /\ Elsewhere({<< p, s >>})
    /\ switched' = [switched EXCEPT ![p] = IF s \in @ THEN @ \ {s} ELSE @ \cup {s}]
    /\ UNCHANGED << owner, made, gone >>

DeleteElsewhere ==
  \E p \in made \ {Default} :
    /\ Elsewhere(Assigned(p)) /\ Deleted(p) /\ owner' = Returned(p)

\* A key is made for a profile.
MakeKey ==
  /\ Late \/ profileDraft.at \in {"closed", "opened"}
  /\ \E k \in ApiKeys, p \in made :
       /\ owner[k] = NoProfile /\ Elsewhere({k})
       /\ owner' = [owner EXCEPT ![k] = p] /\ UNCHANGED << switched, made, gone >>

DraftInit ==
  /\ made \in {m \cup {Default} : m \in SUBSET Strategies}
  /\ owner \in [ApiKeys -> made \cup {NoProfile}]
  /\ gone = {} /\ switched = [p \in Strategies \cup {Default} |-> {}]
  /\ profileDraft = Closed /\ touched = << >>
  /\ others = {} /\ changes = 0 /\ failures = 0

DraftNext ==
  \/ Open \/ ListKeys \/ PickKeys \/ SetSetting \/ Save
  \/ WriteSettings \/ AssignKeys \/ ReturnKeys
  \/ RequestFails \/ Refused \/ Reload \/ Saved \/ Delete \/ Back
  \/ MoveElsewhere \/ SwitchElsewhere \/ DeleteElsewhere \/ MakeKey

DraftSpec == DraftInit /\ [][DraftNext]_draftVars

(*****************************************************************************)
(* Properties.                                                               *)
(*****************************************************************************)

\* A save moves no key its user did not touch, wherever other commands moved
\* it in the meantime and however often the save failed and was repeated
\* (rebase: "Carry only the user's membership edits onto the fresh server
\* state. Untouched keys may have been moved by another command while
\* editing"); only deleting a profile takes its keys along.
UntouchedKeysStand ==
  [][changes' = changes =>
       \A k \in ApiKeys : owner'[k] # owner[k] => k \in DOMAIN touched \/ owner[k] \in gone'
    ]_draftVars

\* Once a save has gone through, the server has every edit the user made since
\* the draft was opened, however many requests failed before or after the
\* server acted on them, unless another command changed the same thing.
EditsLand ==
  At("saved") /\ profileDraft.id \in made =>
    /\ \A k \in ApiKeys \cap DOMAIN touched :
         k \in others \/ (owner[k] = profileDraft.id <=> touched[k])
    /\ \A s \in Settings \cap DOMAIN touched :
         << profileDraft.id, s >> \in others \/ (s \in switched[profileDraft.id] <=> touched[s])

(*****************************************************************************)
(* The inductive invariants behind the properties.                           *)
(*****************************************************************************)

AllProfiles == Strategies \cup {Default}
Stages == {"closed", "opened", "editing", "writing", "assigning", "returning", "saved", "reloading"}

Drafts ==
  [at : Stages, id : AllProfiles \cup {NoProfile}, keys : SUBSET ApiKeys,
   base : SUBSET ApiKeys, on : SUBSET Settings, baseOn : SUBSET Settings,
   listed : SUBSET ApiKeys, add : SUBSET ApiKeys, drop : SUBSET ApiKeys]

DraftTypeOK ==
  /\ made \subseteq AllProfiles /\ Default \in made
  /\ owner \in [ApiKeys -> AllProfiles \cup {NoProfile}]
  /\ \A k \in ApiKeys : owner[k] \in made \cup {NoProfile}
  /\ switched \in [AllProfiles -> SUBSET Settings]
  /\ profileDraft \in Drafts
  /\ DOMAIN touched \subseteq ApiKeys \cup Settings

\* What a save has still to do, and what may be saved at all.
StageInv ==
  LET d == profileDraft IN
  /\ d.id = NoProfile => /\ d.at \in {"closed", "opened", "editing", "writing"}
                         /\ d.base = {}
  /\ d.at = "opened" => DOMAIN touched = {}
  /\ d.id = Default => Removed(d) = {}
  /\ d.at = "writing" => d.add = Added(d) /\ d.drop = Removed(d)
  /\ d.at \in {"assigning", "returning", "saved"} =>
       d.add \subseteq Added(d) /\ d.drop \subseteq Removed(d)
  /\ d.at = "returning" => d.add = {}
  /\ d.at = "saved" => d.add = {} /\ d.drop = {}

\* The draft is what its user wants, wherever nobody else has interfered.
WantedInv ==
  LET d == profileDraft IN
  d.at # "closed" =>
    /\ \A k \in ApiKeys \cap DOMAIN touched :
         k \in d.listed /\ (k \in others \/ (touched[k] <=> k \in d.keys))
    /\ \A s \in Settings \cap DOMAIN touched :
         \/ d.id # NoProfile /\ << d.id, s >> \in others
         \/ touched[s] <=> s \in d.on

\* On the server a key, or a setting, is as the draft found it or as it wants it.
KeyFound(k)  == owner[k] = profileDraft.id <=> k \in profileDraft.base
KeyWanted(k) == owner[k] = profileDraft.id <=> k \in profileDraft.keys
SettingFound(s)  == s \in switched[profileDraft.id] <=> s \in profileDraft.baseOn
SettingWanted(s) == s \in switched[profileDraft.id] <=> s \in profileDraft.on

\* Each key is as found until its request, and as wanted after it.
KeysInv ==
  LET d == profileDraft IN
  d.id # NoProfile => \A k \in ApiKeys \ others :
    /\ d.at \in {"opened", "editing", "writing"} => KeyFound(k)
    /\ d.at \in {"assigning", "returning", "saved"} => k \in d.add \cup d.drop \/ KeyWanted(k)
    /\ d.at = "reloading" => KeyFound(k) \/ KeyWanted(k)

\* So is each setting of a profile that has not been deleted.
SettingsInv ==
  LET d == profileDraft IN
  d.id \in made => \A s \in Settings : << d.id, s >> \notin others =>
    /\ d.at \in {"opened", "editing", "writing"} => SettingFound(s)
    /\ d.at \in {"assigning", "returning", "saved"} => SettingWanted(s)
    /\ d.at = "reloading" => SettingFound(s) \/ SettingWanted(s)

DraftInv == DraftTypeOK /\ StageInv /\ WantedInv /\ KeysInv /\ SettingsInv

\* The keys that are to be moved are those the user touched, when every key there is
\* was listed.
KnownKeys == {k \in ApiKeys : owner[k] # NoProfile}

ListedInv ==
  LET d == profileDraft IN
  /\ Added(d) \cup Removed(d) \cup d.add \cup d.drop \subseteq DOMAIN touched
  /\ d.base \cup d.keys \subseteq KnownKeys
  /\ d.at \notin {"closed", "opened"} => d.listed = KnownKeys

=============================================================================
