------------------------------- MODULE Skills -------------------------------
(***************************************************************************)
(* SkillManager (extensions/skills/skill_manager.py): the inventory of     *)
(* skills, cached under the modification times of its roots, while another *)
(* process adds, removes and disables skills.  A skill's name, whether its *)
(* directory and its SKILL.md exist, and skills.json's opt-outs are kept;  *)
(* descriptions are abstracted.                                            *)
(***************************************************************************)
EXTENDS Integers

CONSTANT SkillNames

Roots == {"local", "plugin"}   \* skills_root, and the plugins' extra dirs

VARIABLES
  dirs,      \* directories under each root
  files,     \* those of them with a SKILL.md
  disabled,  \* opted out in skills.json
  mtime,     \* st_mtime_ns of each root and of skills.json
  unseen,    \* history: those written, since the key was read, in the tick of an earlier write
  cache,     \* _cache_key_state and _cache_value: the skills found under each root, the opt-outs
  reading    \* the key and the opt-outs that a scan in progress has read

disk == <<dirs, files, disabled, mtime>>
skillVars == <<disk, unseen, cache, reading>>

Parts == Roots \cup {"cfg"}
Never == [part \in Parts |-> -1]   \* no key yet
NoCache == [key |-> Never, found |-> [r \in Roots |-> {}], disabled |-> {}]
NothingRead == [key |-> Never, disabled |-> {}]

SkillsInit ==
  /\ dirs \in [Roots -> SUBSET SkillNames]
  /\ files = dirs
  /\ disabled = {}
  /\ mtime = [part \in Parts |-> 0]
  /\ unseen = {}
  /\ cache = NoCache
  /\ reading = NothingRead

-----------------------------------------------------------------------------
(* The platform's writes (extensions/skills/README.md, the contract of     *)
(* operations): a directory and the file in it are separate writes, and    *)
(* only the first changes the modification time of the root: unless the    *)
(* file system's clock has not ticked since the last such write.           *)

Touch(part) ==
  \/ mtime' = [mtime EXCEPT ![part] = @ + 1] /\ UNCHANGED unseen
  \/ unseen' = unseen \cup {part} /\ UNCHANGED mtime

MakeDir(r, n) ==
  /\ n \notin dirs[r]
  /\ dirs' = [dirs EXCEPT ![r] = @ \cup {n}]
  /\ Touch(r)
  /\ UNCHANGED <<files, disabled>>

WriteFile(r, n) ==
  /\ n \in dirs[r] \ files[r]
  /\ files' = [files EXCEPT ![r] = @ \cup {n}]
  /\ UNCHANGED <<dirs, disabled, mtime, unseen>>

DeleteFile(r, n) ==
  /\ n \in files[r]
  /\ files' = [files EXCEPT ![r] = @ \ {n}]
  /\ UNCHANGED <<dirs, disabled, mtime, unseen>>

RemoveDir(r, n) ==
  /\ n \in dirs[r] \ files[r]
  /\ dirs' = [dirs EXCEPT ![r] = @ \ {n}]
  /\ Touch(r)
  /\ UNCHANGED <<files, disabled>>

Configure(n) ==
  /\ disabled' = IF n \in disabled THEN disabled \ {n} ELSE disabled \cup {n}
  /\ Touch("cfg")
  /\ UNCHANGED <<dirs, files>>

Platform ==
  /\ \/ \E r \in Roots, n \in SkillNames :
          MakeDir(r, n) \/ WriteFile(r, n) \/ DeleteFile(r, n) \/ RemoveDir(r, n)
     \/ \E n \in SkillNames : Configure(n)
  /\ UNCHANGED <<cache, reading>>

-----------------------------------------------------------------------------
(* list_skills: the key is read before the scan, the opt-outs before the   *)
(* directories.                                                            *)

Hit == cache.key = mtime

Miss ==
  /\ ~Hit
  /\ reading' = [key |-> mtime, disabled |-> disabled]
  /\ unseen' = {}
  /\ UNCHANGED <<disk, cache>>

\* Local skills come before the plugins' of the same name.
Scanned(key) ==
  [key |-> key,
   found |-> [r \in Roots |-> IF r = "local" THEN files[r] ELSE files[r] \ files["local"]],
   disabled |-> reading.disabled]

\* list_skills(active_only=True)
Active(skills) == (skills.found["local"] \cup skills.found["plugin"]) \ skills.disabled

\* Mutant: the key is read when the scan is over.
ScanUnderLaterKey ==
  /\ cache' = Scanned(mtime)
  /\ reading' = NothingRead
  /\ UNCHANGED <<disk, unseen>>

Scan ==
  /\ cache' = Scanned(reading.key)
  /\ reading' = NothingRead
  /\ UNCHANGED <<disk, unseen>>

\* What the scan raises, such as a root that is gone, leaves the cache alone.
ScanFails ==
  /\ reading' = NothingRead
  /\ UNCHANGED <<disk, unseen, cache>>

\* _resolve_skill_dir: where the Skill tool finds a skill, now.
Resolved(n) ==
  IF n \in files["local"] THEN {"local"} ELSE IF n \in files["plugin"] THEN {"plugin"} ELSE {}

\* load_skill succeeds: the inventory is not asked.
Loads(n) == Resolved(n) # {} /\ n \notin disabled

-----------------------------------------------------------------------------

SkillsTypeOK ==
  /\ dirs \in [Roots -> SUBSET SkillNames]
  /\ files \in [Roots -> SUBSET SkillNames]
  /\ \A r \in Roots : files[r] \subseteq dirs[r]
  /\ disabled \in SUBSET SkillNames
  /\ mtime \in [Parts -> Nat]
  /\ unseen \in SUBSET Parts
  /\ cache \in [key: [Parts -> Nat \cup {-1}], found: [Roots -> SUBSET SkillNames],
                disabled: SUBSET SkillNames]
  /\ reading \in [key: [Parts -> Nat \cup {-1}], disabled: SUBSET SkillNames]
=============================================================================
