---------------------------- MODULE StaticFiles ----------------------------
(***************************************************************************)
(* Files as answers: StaticFileHandlerFactory, DefaultFileLocator and       *)
(* AggregateFileLocator (staticfiles/), as StaticFilesBuilder sets them up: *)
(* with a DefaultFileLocator of its own, unless the application gives it    *)
(* another locator or several in an aggregate.                              *)
(*                                                                          *)
(* A path is the sequence of its segments ("" between two slashes); a file  *)
(* is named by a path and the suffixes behind it, of which only "br" and    *)
(* "gz" have a meaning.  The server handles a request in one go.            *)
(***************************************************************************)
EXTENDS Integers, FiniteSetsExt, SequencesExt

CONSTANTS
    Sites,          \* setups of a server
    Disks,          \* what may be on the disk: sets of entries [path, suffixes, directory]
    Calls,          \* requests: [target, method], the target as in the url (environment)
    Begins(_, _)    \* whether the text of one segment begins with that of another

\* A setup: the locators, each with the prefixes of the urls it is for (<<>> is none) and its
\* root, one by itself or an aggregate; the page for what is not found, or NoFile; the urls
\* that a predicate rule matches and rejects
Targets == [path : Seq(STRING), suffixes : Seq(STRING)]
Locator == [include : Seq(STRING), exclude : Seq(STRING), root : Seq(STRING)]
ASSUME SitesAssumption ==
    \A s \in Sites :
        /\ s.locators \in Seq(Locator) /\ s.aggregate \in BOOLEAN
        /\ ~s.aggregate => Len(s.locators) = 1
        /\ s.notFound \in Targets
ASSUME TargetsAssumption == Calls \subseteq [target : Targets, method : STRING]
\* Only a name has suffixes.
ASSUME DisksAssumption ==
    \A d \in Disks : \A entry \in d : entry.path = <<>> => entry.suffixes = <<>>

VARIABLES site, disk, call    \* one request: to what server, what is on its disk, what is asked for

Locators == site.locators
NotFound == site.notFound

-----------------------------------------------------------------------------
(* Names *)

NoFile == [path |-> <<>>, suffixes |-> <<"none">>]
File(path, suffixes) == [path |-> path, suffixes |-> suffixes]
Suffixed(file, suffix) == [file EXCEPT !.suffixes = Append(@, suffix)]
Below(file, name) == File(Append(file.path, name), <<>>)

Stripped(path) ==
    LET filled == {n \in DOMAIN path : path[n] # ""}
    IN  IF filled = {} THEN <<>> ELSE SubSeq(path, Min(filled), Max(filled))

\* NormalizeRequestPath cuts a query off, which is no part of a path here; TrimMappedPath
\* drops the slashes at both ends and puts the root in front.
Local(locator, target) == File(locator.root \o Stripped(target.path), target.suffixes)

\* createPathPredicate: a prefix may end within a segment.
Under(url, prefix) ==
    /\ Len(url) >= Len(prefix) /\ IsPrefix(Front(prefix), url)
    /\ Begins(url[Len(prefix)], Last(prefix))
IsFor(locator, url) ==
    /\ locator.include = <<>> \/ Under(url, locator.include)
    /\ locator.exclude = <<>> \/ ~Under(url, locator.exclude)

-----------------------------------------------------------------------------
(* Finding a file *)

Exists(file)      == \E entry \in disk : entry.path = file.path /\ entry.suffixes = file.suffixes
IsDirectory(file) == \E entry \in disk : entry.path = file.path /\ entry.suffixes = file.suffixes /\ entry.directory

\* The plain file, or its brotli form, or its gzip form, whatever the client accepts
Variants(file) == <<file, Suffixed(file, "br"), Suffixed(file, "gz")>>
FirstThere(files) ==
    LET there == {n \in DOMAIN files : Exists(files[n])}
    IN  IF there = {} THEN NoFile ELSE files[Min(there)]

\* DefaultFileLocator::getFile
Get(locator, target) ==
    LET file == Local(locator, target)
    IN  IF IsDirectory(file) THEN FirstThere(Variants(Below(file, "index.html")))
        ELSE FirstThere(Variants(file))

\* Mutant of Locate: no locator is asked for a url that it is not for.
BugAlwaysAsked(target) ==
    LET finders == {n \in DOMAIN Locators :
                        IsFor(Locators[n], target.path) /\ Get(Locators[n], target) # NoFile}
    IN  IF finders = {} THEN NoFile ELSE Get(Locators[Min(finders)], target)

\* locateFile: an aggregate asks every locator whether the url is for it; the getFile of one
\* by itself does not.
Locate(target) ==
    LET finders == {n \in DOMAIN Locators :
                        /\ site.aggregate => IsFor(Locators[n], target.path)
                        /\ Get(Locators[n], target) # NoFile}
    IN  IF finders = {} THEN NoFile ELSE Get(Locators[Min(finders)], target)

\* Mutant of Allowed: no rule is asked.
BugNoRule(url) == \E n \in DOMAIN Locators : IsFor(Locators[n], url)

\* passesRequestPredicates, with the canHandle of the locator before it
Allowed(url) == (\E n \in DOMAIN Locators : IsFor(Locators[n], url)) /\ url \notin site.restricted

\* Mutant of Resolved: the page for what is not found stands in for every url.
BugFallbackUnchecked(target) ==
    IF Allowed(target.path) /\ Locate(target) # NoFile THEN Locate(target)
    ELSE IF NotFound = NoFile THEN NoFile ELSE Locate(NotFound)

\* resolveRequest: the file, or the page for what is not found, which no rule looks at
Resolved(target) ==
    IF ~Allowed(target.path) THEN NoFile
    ELSE IF Locate(target) # NoFile THEN Locate(target)
    ELSE IF NotFound = NoFile THEN NoFile ELSE Locate(NotFound)

-----------------------------------------------------------------------------
(* The answer *)

Encoding(file) == IF file.suffixes = <<>> \/ Last(file.suffixes) \notin {"br", "gz"} THEN "none"
                  ELSE Last(file.suffixes)

\* Mutant of Typed: the suffix of the packing decides.
BugTypeOfPacking(file) == file

\* The name whose extension gives the content type
Typed(file) == IF Encoding(file) = "none" THEN file ELSE [file EXCEPT !.suffixes = Front(@)]

Unhandled == [status |-> "unhandled", body |-> NoFile, encoding |-> "none", type |-> NoFile]

\* canHandle, create and createFileResponse
FileAnswer(target, method) ==
    LET file == Resolved(target)
    IN  IF file = NoFile THEN Unhandled
        ELSE IF method \notin {"GET", "HEAD"} THEN [Unhandled EXCEPT !.status = "405"]
        ELSE [status |-> "200", body |-> file, encoding |-> Encoding(file), type |-> Typed(file)]

staticVars == <<site, disk, call>>
StaticInit == site \in Sites /\ disk \in Disks /\ call \in Calls
StaticNext == UNCHANGED staticVars
StaticSpec == StaticInit /\ [][StaticNext]_staticVars

-----------------------------------------------------------------------------
(* Properties *)

Served == FileAnswer(call.target, call.method)

\* The files that a target may stand for, by the roots, and each with its packed forms
Names(target) ==
    {Local(l, target) : l \in ToSet(Locators)}
        \cup {Below(Local(l, target), "index.html") : l \in ToSet(Locators)}
Forms(file) == ToSet(Variants(file))
FormsOf(files) == UNION {Forms(f) : f \in files}

\* The file that a locator looks for first
Sought(l, target) ==
    IF IsDirectory(Local(l, target)) THEN Below(Local(l, target), "index.html") ELSE Local(l, target)

\* A form of the file is in the root of the only locator, or of one among several that is for
\* the url.
IsThere(target) ==
    \E l \in ToSet(Locators) :
        /\ site.aggregate => IsFor(l, target.path)
        /\ \E f \in Forms(Sought(l, target)) : Exists(f)

\* A directory by the name of a packed form or of an index is answered as if it were a file.
DirectoriesAreNamedApart ==
    \A entry \in disk : entry.directory =>
        /\ entry.suffixes = <<>> \/ Last(entry.suffixes) \notin {"br", "gz"}
        /\ entry.path = <<>> \/ Last(entry.path) # "index.html"

\* A body is announced as what it is: undone, its encoding gives the file that was asked for,
\* the index of the directory that was asked for, or the page for what is not found, and
\* that page stands in only when there is no form of the file in any root that is for it.
BodyIsWhatItSays ==
    LET target == call.target
        wanted == Names(target)
        pages  == Names(NotFound)
    IN  Served.status = "200" =>
            /\ Exists(Served.body)
            /\ DirectoriesAreNamedApart => ~IsDirectory(Served.body)
            /\ \/ Served.type \in wanted \cup pages
               \/ Served.body \in wanted \cup pages      \* a packed file by its own name
            /\ Served.body \notin FormsOf(wanted) =>
                /\ Served.body \in FormsOf(pages)
                /\ \A l \in ToSet(Locators) :
                    IsFor(l, target.path) => \A f \in Forms(Sought(l, target)) : ~Exists(f)

\* What a rule rejects and what no locator is for is left to the other routes whatever is on
\* the disk.  Any other url is answered, by a 405 unless the method reads, if there is a form
\* of its file, or of the page for what is not found, wherever a locator may take it from: the
\* page may lie where the urls of the only locator do not reach.  And two urls that differ in
\* slashes at their ends have the same answer, if the same locators are for them.
OnlyItsOwnUrls ==
    LET url == call.target.path
        mine == url \notin site.restricted /\ \E l \in ToSet(Locators) : IsFor(l, url)
        thereIs == IsThere(call.target) \/ (NotFound # NoFile /\ IsThere(NotFound))
    IN  /\ Served.status = (IF ~mine \/ ~thereIs THEN "unhandled"
                            ELSE IF call.method \in {"GET", "HEAD"} THEN "200" ELSE "405")
        /\ \A other \in Calls :
             LET target == other.target IN
             /\ Stripped(target.path) = Stripped(url) /\ target.suffixes = call.target.suffixes
             /\ mine /\ Allowed(target.path)
             /\ \A l \in ToSet(Locators) : IsFor(l, url) <=> IsFor(l, target.path)
             => FileAnswer(target, call.method) = Served
=============================================================================
