-------------------------------- MODULE Files -------------------------------
(***************************************************************************)
(* What is kept in files: a Script, which is saved to its file and loaded   *)
(* again when somebody else has written it (src/script.cpp), and a          *)
(* HashFileMethod, which answers from a cache of its file                   *)
(* (src/hash_file_method.cpp, with File of src/file.cpp).                   *)
(*                                                                          *)
(* Time is counted in seconds, the unit of a file's modification time; the  *)
(* script's own times are in milliseconds, of which only the seconds count. *)
(***************************************************************************)
EXTENDS Integers

CONSTANTS
  Path, ScriptText, Compiles,   \* the texts that eval_script accepts, "" perhaps too
  FileKey, FileVal,             \* of the hash in the HashFileMethod's file
  LastSecond                    \* bound of the model

ASSUME FilesAssumption ==
  /\ Compiles \subseteq ScriptText \cup {""} /\ "" \notin ScriptText
  /\ "" \notin Path /\ LastSecond \in Nat \ {0}

VARIABLES
  second,     \* the clock
  fs,         \* of each path: the file's text and modification time, or Absent
  script,     \* the Script
  synced,     \* when the script was last loaded or saved, and whether its text went whole
  hashFile,   \* the text of the HashFileMethod's file
  hash_,      \* its cache
  unwritten   \* its last write has failed

scriptVars == <<second, fs, script, synced>>
hashVars == <<hashFile, hash_, unwritten>>

Absent == [text |-> "", mtime |-> 0]
Nil_ == "nil"
NoHash == [k \in {} |-> Nil_]

(* A value, or the text of one: a hash, no value, a text that is none. *)
Contents(kind, map) == [kind |-> kind, map |-> map]
Empty_ == Contents("empty", NoHash)
Junk == Contents("junk", NoHash)
NullJson == Contents("null", NoHash)
HashContents == {Contents("hash", h) : h \in UNION {[K -> FileVal] : K \in SUBSET FileKey}}

FilesInit ==
  /\ second = 1
  /\ fs = [p \in Path |-> Absent]
  /\ script = [script |-> "", file |-> "", mod_time |-> 0, reload_every |-> 1,
               next_reload |-> 0, current_time |-> 0, ok |-> FALSE, compiled |-> ""]
  /\ synced = [at |-> 0, whole |-> TRUE]
  /\ hashFile \in HashContents \cup {Empty_, Junk}
  /\ hash_ = Empty_ /\ unwritten = FALSE

-----------------------------------------------------------------------------
(* Script *)

NextReload(s) == IF s.file = "" THEN 0 ELSE s.current_time + s.reload_every

(* eval_script and set_script_ok *)
Evaluated(s) == [s EXCEPT !.compiled = s.script, !.ok = s.script \in Compiles]

(* in.rdbuf(): nobody looks whether the file could be opened, and one that  *)
(* could not (it is not ours to read, or was removed since stat) is empty.  *)
TextRead(path, opens) == IF opens THEN fs[path].text ELSE ""

(* Mutant: a file that does not compile leaves the last script in place. *)
LoadedIfGood(s, isNew, opens) ==
  IF s.file \notin Path \/ fs[s.file] = Absent
  THEN [s EXCEPT !.ok = FALSE, !.mod_time = 0, !.next_reload = NextReload(s)]
  ELSE IF ~isNew /\ fs[s.file].mtime = s.mod_time THEN s
  ELSE IF TextRead(s.file, opens) \notin Compiles THEN [s EXCEPT !.mod_time = fs[s.file].mtime, !.ok = FALSE]
  ELSE LET e == Evaluated([s EXCEPT !.mod_time = fs[s.file].mtime, !.script = TextRead(s.file, opens)])
       IN [e EXCEPT !.next_reload = NextReload(e)]

(* load_script_from_file: a script that does not compile returns before the *)
(* next reload is planned.                                                  *)
Loaded(s, isNew, opens) ==
  IF s.file \notin Path \/ fs[s.file] = Absent
  THEN [s EXCEPT !.ok = FALSE, !.mod_time = 0, !.next_reload = NextReload(s)]
  ELSE IF ~isNew /\ fs[s.file].mtime = s.mod_time THEN s
  ELSE LET e == Evaluated([s EXCEPT !.mod_time = fs[s.file].mtime, !.script = TextRead(s.file, opens)])
       IN IF e.ok THEN [e EXCEPT !.next_reload = NextReload(e)] ELSE e

WasLoaded(isNew) ==
  /\ script'.file \in Path /\ fs[script'.file] # Absent
  /\ isNew \/ fs[script'.file].mtime # script.mod_time

(* Mutant: a script that could not be saved stays approved. *)
SetScriptKeepsOk(text, writes) ==
  LET s == [script EXCEPT !.script = text] IN
  /\ s.file # "" /\ ~writes /\ fs[s.file] = Absent
  /\ script' = s
  /\ UNCHANGED <<second, fs, synced>>

(* script(text): save, when there is a file, and evaluate.  Nobody looks    *)
(* whether the file could be written: only a file that is not there counts. *)
SetScript(text, writes) ==
  LET s == [script EXCEPT !.script = text]
      saved == [text |-> text, mtime |-> second]
  IN
  \/ /\ s.file = "" /\ writes
     /\ script' = Evaluated(s)
     /\ UNCHANGED <<second, fs, synced>>
  \/ /\ s.file # ""
     /\ fs' = IF writes THEN [fs EXCEPT ![s.file] = saved] ELSE fs
     /\ IF fs'[s.file] = Absent
        THEN script' = [s EXCEPT !.ok = FALSE] /\ UNCHANGED synced
        ELSE /\ script' = Evaluated([s EXCEPT !.mod_time = fs'[s.file].mtime])
             /\ synced' = [at |-> second, whole |-> writes]
     /\ UNCHANGED second

SetFile(path, opens) ==
  /\ script' = Loaded([script EXCEPT !.file = path], TRUE, opens)
  /\ synced' = IF WasLoaded(TRUE) THEN [at |-> second, whole |-> opens] ELSE synced
  /\ UNCHANGED <<second, fs>>

SetReload(seconds) ==
  /\ LET s == [script EXCEPT !.reload_every = seconds]
     IN script' = [s EXCEPT !.next_reload = NextReload(s)]
  /\ UNCHANGED <<second, fs, synced>>

(* reload_script, in each message an OscMapCommand receives *)
ReloadScript(opens) ==
  LET s == [script EXCEPT !.current_time = second]
      due == s.next_reload # 0 /\ s.next_reload <= second
  IN
  /\ script' = IF due THEN Loaded([s EXCEPT !.next_reload = NextReload(s)], FALSE, opens) ELSE s
  /\ synced' = IF due /\ WasLoaded(FALSE) THEN [at |-> second, whole |-> opens] ELSE synced
  /\ UNCHANGED <<second, fs>>

(* Somebody else writes a file, or removes it. *)
Edit(path, text) ==
  /\ fs' = [fs EXCEPT ![path] = [text |-> text, mtime |-> second]]
  /\ UNCHANGED <<second, script, synced>>

Unlink(path) ==
  /\ fs' = [fs EXCEPT ![path] = Absent]
  /\ UNCHANGED <<second, script, synced>>

Elapse ==
  /\ second < LastSecond /\ second' = second + 1
  /\ UNCHANGED <<fs, script, synced>>

ScriptNext ==
  \/ \E text \in ScriptText, writes \in BOOLEAN : SetScript(text, writes)
  \/ \E path \in Path : (\E opens \in BOOLEAN : SetFile(path, opens)) \/ Unlink(path)
  \/ \E seconds \in 0..1 : SetReload(seconds)
  \/ \E path \in Path, text \in ScriptText : Edit(path, text)
  \/ (\E opens \in BOOLEAN : ReloadScript(opens)) \/ Elapse

-----------------------------------------------------------------------------
(* HashFileMethod *)

IsHash(v) == v.kind = "hash"

(* trigger(nil): read the file once. *)
Read == IF hash_ # Empty_ THEN hash_ ELSE IF IsHash(hashFile) THEN hashFile ELSE Empty_

(* Values to merge: a nil removes its key. *)
Updates == UNION {[K -> FileVal \cup {Nil_}] : K \in SUBSET FileKey}
MergedWith(v, u) ==
  LET h == v.map
      keys == (DOMAIN h \ {j \in DOMAIN u : u[j] = Nil_}) \cup (DOMAIN u \ DOMAIN h)
  IN Contents("hash", [k \in keys |-> IF k \in DOMAIN u THEN u[k] ELSE h[k]])

JsonOf(h) == IF h = Empty_ THEN NullJson ELSE h

FileWrite(h, works) ==
  /\ hashFile' = IF works THEN JsonOf(h) ELSE hashFile
  /\ unwritten' = ~works

TriggerRead ==
  /\ hash_' = Read
  /\ UNCHANGED <<hashFile, unwritten>>

TriggerWrite(h, works) ==
  /\ FileWrite(h, works)
  /\ hash_' = IF works THEN h ELSE hash_

(* Mutant: the file is not read before the first update. *)
UpdateUnread(u, works) ==
  /\ hash_' = MergedWith(IF IsHash(hash_) THEN hash_ ELSE Contents("hash", <<>>), u)
  /\ FileWrite(hash_', works)

(* update: a file that is not there is an error; a value that is no hash is *)
(* not merged into, but written.                                            *)
Update(u, works) ==
  \/ /\ hash_ = Empty_ /\ hashFile = Empty_
     /\ ~works /\ UNCHANGED hashVars
  \/ /\ hash_ # Empty_ \/ hashFile # Empty_
     /\ hash_' = IF Read = Empty_ THEN Empty_ ELSE MergedWith(Read, u)
     /\ FileWrite(hash_', works)

HashNext ==
  \/ TriggerRead
  \/ \E h \in HashContents, works \in BOOLEAN : TriggerWrite(h, works)
  \/ \E u \in Updates, works \in BOOLEAN : Update(u, works)

(* A Script and a HashFileMethod, in any order: they share nothing. *)
FilesSpec ==
  /\ FilesInit
  /\ [][\/ ScriptNext /\ UNCHANGED hashVars
        \/ HashNext /\ UNCHANGED scriptVars]_<<scriptVars, hashVars>>

-----------------------------------------------------------------------------
(* Properties *)

(* script_ok says that the script that is shown is the one that compiled:   *)
(* script.h "This flag can be used to avoid using compilation results if    *)
(* something went wrong".                                                   *)
ScriptIsJudged == script.ok => script.compiled = script.script /\ script.script \in Compiles

(* A change of the file that reload_script cannot see was made in the       *)
(* second in which the script was loaded or saved, or the script could not  *)
(* be saved, or its file not be read, at all.                               *)
MissedInItsSecond ==
  script.file # "" /\ fs[script.file] # Absent =>
    \/ fs[script.file].mtime # script.mod_time
    \/ fs[script.file].text = script.script
    \/ synced.at = script.mod_time \/ ~synced.whole

(* What a HashFileMethod answers is in its file, unless its last write has  *)
(* failed, and an update leaves the keys alone that it does not name, the   *)
(* ones in a file that was not read before too.                             *)
AnswerIsWritten == hash_ # Empty_ /\ ~unwritten => hashFile = hash_
UpdateKeepsOthers ==
  \A u \in Updates : Update(u, TRUE) /\ IsHash(hashFile) /\ ~unwritten =>
    \A k \in DOMAIN hashFile.map \ DOMAIN u :
      k \in DOMAIN hashFile'.map /\ hashFile'.map[k] = hashFile.map[k]

(* What is shown and what is in the files agree, as the four say.           *)
FilesAreKept ==
  /\ [](ScriptIsJudged /\ MissedInItsSecond /\ AnswerIsWritten)
  /\ [][UpdateKeepsOthers]_hashVars

=============================================================================
