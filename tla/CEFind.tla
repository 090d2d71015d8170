------------------------------- MODULE CEFind -------------------------------
(***************************************************************************)
(* File names: how the kernel turns a path of the guest into one below the  *)
(* root directory, how it matches a name with a pattern, and the searches   *)
(* of FindFirstFileW and FindNextFileW over a directory that changes while   *)
(* they are under way.                                                      *)
(*                                                                          *)
(* A string is a sequence of characters, a character a string of length 1.  *)
(* The searches run in one directory; the path in front of the last         *)
(* separator has led to it, or opendir has failed and nothing changes.      *)
(***************************************************************************)
EXTENDS CEKernel, Sequences

CONSTANTS Files,          \* names that entries of the directory may have
          Patterns,       \* patterns that are searched for
          TriedPatterns,  \* patterns and names wildcard_match is compared on
          TriedNames,
          TriedPaths      \* strings guest_path is compared on

ASSUME StringsAssumption ==
  Files \cup Patterns \cup TriedPatterns \cup TriedNames \cup TriedPaths \subseteq Seq(STRING)
VARIABLES entries,     \* names in the directory, without . and ..
          search       \* the state of the search behind a DIR

filesVars == <<vars, entries, search>>

Dots == {<<".">>, <<".", ".">>}

ASSUME FilesAssumption == Files \cap Dots = {}
-----------------------------------------------------------------------------
Lower(c) == CASE c = "A" -> "a" [] c = "B" -> "b" [] OTHER -> c

\* The character of a pattern that is not a star matches that of a name.
Equals(p, c) == p = "?" \/ Lower(p) = Lower(c)

\* Faulty variant of wildcard_match: a star that is not last has to match something.
MatchNonEmpty(pattern, value) ==
  LET match[i \in 1 .. Len(pattern) + 1] ==
        [j \in 1 .. Len(value) + 1 |->
           IF i > Len(pattern) THEN j > Len(value)
           ELSE IF pattern[i] = "*"
           THEN i = Len(pattern) \/ \E k \in j + 1 .. Len(value) : match[i + 1][k]
           ELSE j <= Len(value) /\ Equals(pattern[i], value[j]) /\ match[i + 1][j + 1]]
  IN  match[1][1]

\* wildcard_match: match[i][j] is the call for the pattern from i on and the value from j
\* on.  A star in last place matches the rest; another one tries the rest of the pattern
\* at every character that is left, not at the end of the value.
wildcard_match(pattern, value) ==
  LET match[i \in 1 .. Len(pattern) + 1] ==
        [j \in 1 .. Len(value) + 1 |->
           IF i > Len(pattern) THEN j > Len(value)
           ELSE IF pattern[i] = "*"
           THEN i = Len(pattern) \/ \E k \in j .. Len(value) : match[i + 1][k]
           ELSE j <= Len(value) /\ Equals(pattern[i], value[j]) /\ match[i + 1][j + 1]]
  IN  match[1][1]

\* The state of guest_path: what is written behind the root, the length of the
\* component so far, and whether the path is still accepted.
NoPath == [out |-> <<>>, segment |-> 0, ok |-> TRUE]

EndsInDots(path) ==
  path.segment = 2 /\ path.out[Len(path.out)] = "." /\ path.out[Len(path.out) - 1] = "."

\* Characters that are not ASCII: one, and the bytes of its UTF-8 form one by one.
Wide == {"wide", "byte1", "byte2"}

\* A character of the guest as it is written: a backslash separates, and a colon and
\* what is not ASCII become an underscore.
Converted(c) ==
  CASE c = "\\" -> "/"
    [] c \in {":"} \cup Wide -> "_"
    [] OTHER -> c

ScanCharacter(path, c) ==
  LET char == Converted(c) IN
  [out     |-> Append(path.out, char),
   segment |-> IF char = "/" THEN 0 ELSE path.segment + 1,
   ok      |-> path.ok /\ ~(char = "/" /\ EndsInDots(path))]

\* Faulty variant of guest_path: the last component is not looked at.
PathWithoutLast(wide) ==
  LET path[n \in 0 .. Len(wide)] ==
        IF n = 0 THEN NoPath ELSE ScanCharacter(path[n - 1], wide[n])
  IN  path[Len(wide)]

\* guest_path for a string that can be read: its characters one by one, path[n] after n
\* of them, and the component at the end.
guest_path(wide) ==
  LET path[n \in 0 .. Len(wide)] ==
        IF n = 0 THEN NoPath ELSE ScanCharacter(path[n - 1], wide[n])
      last == path[Len(wide)]
  IN  [last EXCEPT !.ok = last.ok /\ ~EndsInDots(last)]
-----------------------------------------------------------------------------
\* A search: the entries readdir still has to return, those it may return because they
\* were made or removed since opendir, and two histories: the entries the guest was told
\* of since they were made, and those it has to be told of, which were there all along
\* and not lost.
NoSearch == [pattern |-> <<>>, must |-> {}, may |-> {}, told |-> {}, owed |-> {}]

opendir(pattern) ==
  [pattern |-> pattern, must |-> entries \cup Dots, may |-> {}, told |-> {}, owed |-> entries]

\* What readdir may return next and find_next does not pass over.
Wanted(s) == {n \in (s.must \cup s.may) \ Dots : wildcard_match(s.pattern, n)}

\* find_next reports n: it reads on until an entry matches.
find_next(s, n) == n \in Wanted(s)

\* Faulty variant of Exhausted: an entry that does not match ends the search.
EndsAtMismatch(s) ==
  s.must \cap Wanted(s) = {} \/ \E n \in s.must \ Dots : ~wildcard_match(s.pattern, n)

\* find_next reports that there is nothing left: everything that had to be returned
\* was passed over.
Exhausted(s) == s.must \cap Wanted(s) = {}

\* Faulty variant of ReportedName: the last character is taken for the terminator.
ReportedShort(name) == SubSeq(name, 1, Len(name) - 1)

\* One more character of the host's name: its bytes.
Report(out, c) == out \o IF c = "wide" THEN <<"byte1", "byte2">> ELSE <<c>>

\* A name as the guest gets it: each byte of the host's name is a character.
ReportedName(name) ==
  LET out[n \in 0 .. Len(name)] == IF n = 0 THEN <<>> ELSE Report(out[n - 1], name[n])
  IN  out[Len(name)]

Read(s, n) == [s EXCEPT !.must = @ \ {n}, !.may = @ \ {n}]

\* Faulty variant of Tell: the search does not move on.
TellAgain(s, n) == [s EXCEPT !.told = @ \cup {n}]

\* The guest gets n.
Tell(s, n) == [Read(s, n) EXCEPT !.told = @ \cup {n}]

\* It is lost because the guest's buffer cannot be written.
Lose(s, n) == [Read(s, n) EXCEPT !.owed = @ \ {n}]

\* An entry is made or removed; searches that are under way may see it or not.  One that
\* is made is a new one, whatever was told of its name before.
Made(s, n) ==
  [s EXCEPT !.may = @ \cup {n}, !.told = @ \ {n}, !.owed = @ \ {n}]

Removed(s, n) ==
  [s EXCEPT !.may = IF n \in s.must THEN @ \cup {n} ELSE @,
            !.must = @ \ {n}, !.told = @ \ {n}, !.owed = @ \ {n}]

Underway == {r \in 1 .. opened : search[r] # NoSearch}
-----------------------------------------------------------------------------
FilesInit ==
  /\ Init
  /\ entries \in SUBSET Files
  /\ search = [r \in 1 .. MaxResources |-> NoSearch]

\* FindFirstFileW with a match, which goes back if there is no slot or the guest's
\* buffer cannot be written.
FindFirst(pattern) ==
  /\ FindFirstFile
  /\ \E n \in Files \cup Dots :
        /\ find_next(opendir(pattern), n)
        /\ search' = IF open' = open THEN search
                     ELSE [search EXCEPT ![opened'] = Tell(opendir(pattern), n)]
  /\ UNCHANGED entries

\* FindFirstFileW without a match: the DIR is closed again.
FindFirstNone(pattern) ==
  /\ alive /\ opened < MaxResources
  /\ Exhausted(opendir(pattern))
  /\ opened' = opened + 1
  /\ UNCHANGED <<handles, open, known, alive, entries, search>>

\* FindNextFileW; if the buffer cannot be written the answer is the one for the end of
\* the search, and the entry is gone.
FindNext(h) ==
  /\ alive /\ HasType(h, {"FIND"})
  /\ \E n \in Files \cup Dots :
        LET r == handles[h].resource IN
        /\ find_next(search[r], n)
        /\ \/ search' = [search EXCEPT ![r] = Tell(search[r], n)]
           \/ search' = [search EXCEPT ![r] = Lose(search[r], n)]
  /\ UNCHANGED <<vars, entries>>

FindNextEnds(h) ==
  /\ alive /\ HasType(h, {"FIND"})
  /\ Exhausted(search[handles[h].resource])
  /\ search' = [search EXCEPT ![handles[h].resource].must = {}, ![handles[h].resource].may = {}]
  /\ UNCHANGED <<vars, entries>>

\* The host object of a closed search is freed.
Freed == search' = [r \in 1 .. MaxResources |-> IF r \in open' THEN search[r] ELSE NoSearch]

MakeEntry(n) ==
  /\ entries' = entries \cup {n}
  /\ search' = IF n \in entries THEN search
               ELSE [r \in 1 .. MaxResources |->
                       IF r \in Underway THEN Made(search[r], n) ELSE search[r]]

RemoveEntry(n) ==
  /\ entries' = entries \ {n}
  /\ search' = [r \in 1 .. MaxResources |->
                  IF r \in Underway THEN Removed(search[r], n) ELSE search[r]]

\* CreateFileW: fopen makes the file when it is opened for writing and must find it
\* when it is opened for reading.
OpenFile(n) ==
  /\ CreateFile
  /\ \/ MakeEntry(n)
     \/ n \in entries /\ UNCHANGED <<entries, search>>

\* CreateDirectoryW, and a file the user imports.
CreateEntry(n) == alive /\ n \notin entries /\ MakeEntry(n) /\ UNCHANGED vars

\* DeleteFileW and RemoveDirectoryW.
DeleteEntry(n) == alive /\ n \in entries /\ RemoveEntry(n) /\ UNCHANGED vars

\* MoveFileW, which replaces an entry that has the new name.
MoveEntry(from, to) ==
  /\ alive /\ from \in entries /\ from # to
  /\ entries' = (entries \ {from}) \cup {to}
  /\ search' = [r \in 1 .. MaxResources |->
                  IF r \in Underway THEN Made(Removed(Removed(search[r], from), to), to)
                  ELSE search[r]]
  /\ UNCHANGED vars

\* CloseHandle and FindClose.
CloseFound(h) ==
  /\ CloseHandle(h) \/ FindClose(h)
  /\ Freed
  /\ UNCHANGED entries

\* Handles of other kinds, which take and free the slots between the searches.
OtherHandles ==
  /\ \/ \E type \in {"BRUSH", "EVENT"} : CreateObject(type, FALSE)
     \/ RegOpenKey
     \/ \E h \in CEHandle : SetEvent(h, TRUE) \/ DeleteObject(h) \/ RegCloseKey(h)
  /\ UNCHANGED <<entries, search>>

Destroy == CERuntimeDestroy /\ Freed /\ UNCHANGED entries

FilesNext ==
  \/ \E pattern \in Patterns : FindFirst(pattern) \/ FindFirstNone(pattern)
  \/ \E h \in CEHandle : FindNext(h) \/ FindNextEnds(h) \/ CloseFound(h)
  \/ \E n \in Files : OpenFile(n) \/ CreateEntry(n) \/ DeleteEntry(n)
  \/ \E from, to \in Files : MoveEntry(from, to)
  \/ OtherHandles
  \/ Destroy

FilesSpec == FilesInit /\ [][FilesNext]_filesVars
-----------------------------------------------------------------------------
SameLetter(c, d) == c = d \/ \E pair \in {{"a", "A"}, {"b", "B"}} : {c, d} \subseteq pair

\* What a pattern means: the name can be cut into pieces, one for each character of the
\* pattern, any piece for a star and one matching character for the others.
Glob(pattern, name) ==
  \E cut \in [0 .. Len(pattern) -> 0 .. Len(name)] :
     /\ cut[0] = 0 /\ cut[Len(pattern)] = Len(name)
     /\ \A i \in 1 .. Len(pattern) :
           /\ cut[i - 1] <= cut[i]
           /\ \/ pattern[i] = "*"
              \/ /\ cut[i] = cut[i - 1] + 1
                 /\ pattern[i] = "?" \/ SameLetter(pattern[i], name[cut[i]])

\* Two stars at the end do not match nothing: the first one stands for a character.
TailTaken(pattern) ==
  LET n == Len(pattern) IN
  IF n > 1 /\ pattern[n] = "*" /\ pattern[n - 1] = "*"
  THEN [pattern EXCEPT ![n - 1] = "?"] ELSE pattern

\* The recursive matcher, which gives up a star at the end of the value, decides what
\* the pattern means, without regard to case, for every pattern but one that ends in
\* two stars, where it asks for one more character (157-169).
WildcardIsGlob ==
  \A pattern \in TriedPatterns, name \in TriedNames :
     wildcard_match(pattern, name) <=> Glob(TailTaken(pattern), name)

\* What lies between the separators of a path.
Components(path) ==
  LET Position == 1 .. Len(path)
      Starts(i) == i = 1 \/ path[i - 1] = "/"
      Ends(j) == j = Len(path) \/ path[j + 1] = "/"
  IN  {SubSeq(path, i, j) : i \in {p \in Position : Starts(p)}, j \in {p \in Position : Ends(p)}}

\* "separators are normalized and .. path components are rejected"
\* (Docs/ARCHITECTURE.md 24): a path is refused exactly if one of its components, with
\* backslashes and slashes mixed, leads upwards (85-98).
UpwardsRefused ==
  \A wide \in TriedPaths :
     LET path == guest_path(wide) IN path.ok <=> <<".", ".">> \notin Components(path.out)

\* A file that a search reports can be opened by the name reported exactly if the guest
\* could have made it: names it makes survive the two conversions, and those of
\* imported files with other characters do not (92 and 185).
FoundNamesOpen ==
  LET made == {path.out : path \in {p \in {guest_path(wide) : wide \in TriedPaths} : p.ok}} IN
  \A name \in TriedPaths :
     LET path == guest_path(ReportedName(name)) IN
     path.ok /\ path.out = name <=> name \in made

\* A search reports entries that match, none that it has reported since it was made, and
\* when it says that there are none left it has reported every one that was there all
\* along and matches, whatever other entries were made and removed meanwhile, except one
\* whose buffer could not be written (170-189, 320-324).
SearchExact ==
  [][/\ \A r \in DOMAIN search :
           /\ \A n \in search'[r].told \ search[r].told : n \notin Dots /\ Glob(search'[r].pattern, n)
           /\ \A n \in search[r].told : ~find_next(search[r], n)
     /\ \A pattern \in Patterns :
           FindFirstNone(pattern) => \A n \in entries : ~Glob(TailTaken(pattern), n)
     /\ \A h \in CEHandle : FindNextEnds(h) =>
           LET s == search[handles[h].resource] IN
           \A n \in s.owed \ s.told : ~Glob(TailTaken(s.pattern), n)]_filesVars
=============================================================================
