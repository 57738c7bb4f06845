# A verification of Kakoune's core

TLA+ models of the parts of Kakoune that are hard to test, the configurations
with which TLC checks them on small instances, and theorems about them that
TLAPS checks for every value of their constants. The code is C++ in `src/src`;
`PROJECT.json` maps every definition that models code to the lines it stands
for. File and line references below are relative to `src/src` unless they name
a directory.

Contents: [the system](#the-system), [the modules](#the-modules),
[the runs](#the-runs), [the proofs](#the-proofs),
[where code and words differ](#where-code-and-words-differ),
[what is not modelled](#what-is-not-modelled), [the plan](#the-plan).

## The system

Kakoune is a server with any number of clients. The server is one thread that
runs an event loop (`main.cc`, `event_manager.cc`); commands, hooks and redraws
all happen in callbacks of that loop, and some callbacks start a nested loop of
their own ("urgent" events, while a shell runs or a file is written). The one
exception is a worker thread that parses for the highlighters (`syntax_tree.cc`).
Other processes take part through sockets (clients), pipes (shells) and
fifos. So most of what is hard here is not parallelism but long sequences of
legal calls, callbacks that run in the middle of other calls, and pieces of state
that remember a timestamp, a history id, a descriptor or a pointer and use it
later.

| component | state | operations | interacts with | hard behaviour | correct when |
|---|---|---|---|---|---|
| Buffer (`buffer.*`) | lines, flags, history nodes, current and saved history id, current undo group, change log | insert, erase, replace, undo, redo, move_to, commit, reload, notify_saved, set_name | contexts commit its groups; windows, selections and trees read its changes by timestamp; its hooks run commands | history is modifications only, so each must meet exactly the text it was made to, after any sequence of calls; `is_modified` compares ids | undo, redo and move_to restore exact texts; a committed group stays; lines end in EOL; unmodified means saved |
| Fifo buffers (`buffer_utils.*`) | watcher, descriptor, scroll mode, trailing newline, range announced | open, read, end | event loop calls it back; edits a buffer that keeps no undo data | data is cut anywhere; the initial empty line; the writer may be faster; the end must be noticed | the buffer shows the data; hooks are told what was inserted; the watcher goes away |
| Selections (`selection.*`, `changes.*`) | ranges, main index, timestamp | update to the buffer, sort, merge | change log of the buffer | moves coordinates through changes in two coordinate systems | sorted, disjoint, inside the text, equal to moving one change at a time |
| Line modifications, words (`line_modification.*`, `word_db.*`) | line ranges, counts, timestamp | from changes, update | change log | adjacent changes merge | equal to a diff by lines; counts equal a fresh count |
| Context (`context.*`) | selections history, jump list, editing depth | push, jump, undo selections, begin and end an edition, change or forget a buffer | buffers come and go | buffers deleted under the lists; editions of two contexts | indices in range, no dead buffer, editions committed |
| Clients and buffers (`client*`, `buffer_manager.*`, `window.*`) | lists of live and trashed clients, windows, buffers; dialog per client | create, remove, clear trash, reload dialog | hooks run in the middle of removals | removal while iterating or while locked | no use of what is gone, trash is emptied, dialogs agree |
| Event manager (`event_manager.*`) | watchers, timers, forced descriptors | watch, handle events, force a signal | everything that waits | urgent events inside other callbacks; watchers go while events are dispatched | no event lost or given to another watcher; forced signals are served |
| Server loop (`main.cc`) | pending inputs, running flag | one round, fork to background | clients, events | order of inputs, redraws and trash | terminates when it should, never sleeps with input pending |
| Remote (`remote.*`) | message reader, accepters, UI, send queue | accept, read, write, reconnect | event manager, client manager | messages in pieces; a socket shared by two watchers | every message handled once, in order, by one reader |
| Shell (`shell_manager.*`) | child, pipes, cancel flag, fifos | eval | nested event loop, SIGCHLD | child, pipes and cancellation end in any order | returns once all ended, with all the output |
| Hooks (`hook_manager.*`) | hook lists, running hooks, trash | add, remove, run | run any command | hooks that remove, add or run themselves | once-hooks run once; no use after removal |
| Options (`option_manager.*`) | values by scope, watchers | set, unset, declare | every component watches | watchers change while notified | a watcher hears of the change of what it sees |
| Registers, keymaps, aliases, faces, scopes | chained tables | look up, set, unset | options | little | the innermost scope wins |
| Input handling (`input_handler.*`, `keys.*`) | stack of modes, macros, last insert | push, pop, keys | contexts, hooks | modes pop while they run | the stack is never empty; recording nests |
| Commands (`command_manager.*`, `commands.*`, `parameters_parser.*`) | modules, commands | parse, expand, load | all | modules that require each other | a module is loaded once |
| Normal mode (`normal.*`, `selectors.*`) | none of their own | selections to selections | buffer, selections | boundaries | results are valid selections |
| Background parses (`AsyncSyntaxTree`) | current tree, worker, job flag, snapshot, result, wake pipe, dispatched timestamp | poll, start a job, take a result over | redraws, event loop, a thread | the worker's steps against polls, joins, wake-ups and time-outs | no torn or lost result, no sharing, newest text parsed in the end |
| Syntax trees (`SyntaxTree`) | tree, byte index, three timestamps, pending edits, layers | adopt, update, detect injections | change log, background parses, commands, draws | two sources of trees, edits applied in place, parses that time out in the middle | every tree is in the coordinates its timestamp says |
| Languages, split/join (`language_registry.*`, `splitjoin.*`) | loaded grammars | load, query | syntax trees | I/O | - |
| Regular expressions (`regex*`) | program, thread list | compile, run | selections, highlighters | thread order and saves | agrees with a reference matcher |
| Completion (`insert_completer.*`, `completion.*`, `ranked_match.*`) | candidates, timestamps | complete, update | buffer, words, options | candidates of another text | the completed range is the one replaced |
| Highlighting, display (`highlighter*`, `display_buffer.*`) | caches by timestamp | highlight | buffer, trees | stale caches | a cache is of the text drawn |
| User interfaces (`terminal_ui.*`, `json_ui.*`, `json.*`) | parser state, screen | keys, draw | event loop | split escape sequences | - |
| Files (`file.*`) | none | read, write, watch | nested event loop | a write that waits; failures in the middle of a replacement | a failed write leaves the buffer modified |
| Utilities (`string.hh`, `diff.hh`, ...) | none | - | all | - | unit tests |
| tree-sitter (`tree_sitter/`) | vendored | - | syntax trees | - | - |

`PROJECT.json` lists the hazards of these components, each at its line, with
the properties that speak of it or a note that says why there is none.

## The modules

| module | what it is | code |
|---|---|---|
| `BufferText` | the text and one modification of it | `do_insert`, `do_erase`, `Modification`, the end-of-buffer rules of `insert` and `erase` |
| `Buffer` | text, flags, history and every call that changes them | `buffer.cc`, `Context::end_edition`, the flags of `create_fifo_buffer` |
| `VersionTree` | abstract: a tree of whole texts | what `Buffer` promises |
| `FifoText`, `FifoBuffer` | a chunk read from a fifo; the reading callback against a writer | `create_fifo_buffer`, `FifoWatcher` |
| `LineBuffer` | the vector of lines, coordinates, the change log | `do_insert`, `do_erase`, `insert`, `erase`, `replace` |
| `Changes` | coordinates moved through runs of changes | `changes.cc`, `changes.hh` |
| `Selections` | a list of selections, by others and through itself | `selection.cc`, Backspace of `input_handler.cc`, undo in `normal.cc` |
| `LineModification`, `WordDB`, `LineSpecs`, `Regions` | what follows the lines of a buffer | `line_modification.cc`, `word_db.cc`, `highlighters.cc` |
| `HostParse` | abstract: trees of newer and newer texts | what background parses promise, and what `SyntaxTree` uses |
| `AsyncSyntaxTree` | the background parser and its thread | `AsyncSyntaxTree`, `worker_parse_host` |
| `SyntaxTree` | the tree that draws and commands share, and a layer | `SyntaxTree`, `sync_async_host_tree`, the commands of tree-sitter |
| `EventManager` | watchers, descriptors, nested calls of `handle_next_events` | `event_manager.cc` |
| `ShellManager` | commands and the shells they wait for | `shell_manager.cc`, `CommandManager::execute`, `quit` |
| `Remote` | listener, accepters, remote clients | `remote.cc`, the key callback of `client.cc` |
| `ServerLoop` | the main loop, over the three | `run_server`, `process_pending_inputs` |
| `Contexts` | jump list, selection history, edition of a context | `context.cc` |
| `ServerObjects` | buffers, clients, windows, hooks | `buffer_manager.cc`, `client_manager.cc`, `client.cc`, `context.cc`, `hook_manager.cc` |
| `RegexNodes`, `RegexProgram` | regexes and what they are compiled to | `regex_vm.cc` |
| `ThreadStack`, `RegexVM` | the ring of threads and the machine | `regex_vm.hh`, `regex.hh` |
| `RegexMatches` | abstract: what a regex matches, by trying | `doc/pages/regex.asciidoc` |
| `MC...` | instances for TLC | |
| `BufferProofs` | theorems about `BufferText` and `Buffer` | |
| `FifoBufferProofs` | theorems about `FifoBuffer` | |
| `AsyncSyntaxTreeProofs`, `SyntaxTreeProofs` | theorems about `AsyncSyntaxTree` and `SyntaxTree` | |
| `LineBufferProofs` | theorems about `LineBuffer` | |
| `ServerLoopProofs` | theorems about `ServerLoop` and the modules below it | |
| `ServerObjectsProofs` | theorems about `Contexts` and `ServerObjects` | |
| `RegexVMProofs` | theorems about `ThreadStack` and `RegexVM` | |

How they are composed. `Buffer` and `FifoBuffer` share `FifoText`: the first puts
a fifo's chunks among all the other calls on a buffer, the second has the reads,
the writer and the announced ranges. `Selections` and the followers of lines stand on
`LineBuffer`; `MCLineFollowers` puts the followers beside one buffer. `ServerLoop`
EXTENDS `Remote`, which EXTENDS `ShellManager`, which EXTENDS `EventManager`: one
thread, whose calls in progress are the stack that all four push to and pop from.
`ServerObjects` uses `Contexts` for the contexts of its clients. `Buffer` implements
`VersionTree` and `AsyncSyntaxTree` implements `HostParse`, by refinement
mappings; `SyntaxTree` EXTENDS `HostParse` and uses its actions in place of the
background parser: it sees only what the refinement has shown.

Every module begins with a comment on its abstractions, and definitions bear the
code's names. Some definitions are followed or preceded by one of the same
shape with a wrong body ("or wrongly the first"); nothing uses them: they are the
plausible bugs that show that each property notices one.

### Buffer

*State.* `text` is `m_lines`; `m_history`, `m_history_id`,
`m_last_save_history_id`, `m_current_undo_group` and `m_flags` are the members of
those names. Ids are one higher than in the code, so that a history is a sequence
(First = 1, Invalid = 0). The text is the flat sequence of its characters: since
every line ends with EOL, lines and characters determine one another; what the
vector of lines does at line boundaries is in `LineBuffer`.

*Steps.* `undo`, `redo`, `move_to`, `replace` and `reload` are single calls in
the code, but each modification they make is a step of the model. This keeps
recursion and loops out of it (the proofs need that) and gives the assertion of
`apply_modification` a state in which to be checked. `m_walk` records which call
is in progress; all other actions wait until it is idle, except that a reload
and a replacement choose among their own next steps.

*Ghosts.* `snapshots` holds, for each node, the texts that its group went through
when it was made, `pending` the same for the current group, `saved` the text last
saved or loaded. No guard and no other variable reads them.

*Open choices.* The script that the diff algorithm finds is any sequence of kept,
added and removed blocks of lines that leads to the new text. When editing ends
and groups are committed is left to chance, which includes every place where
`Context` does it.

*Constants.* `Contents` (what is inserted), `FileTexts` (what is read from
files), `MaxLen`, `MaxHistory`, `MaxGroup` (bounds on the text, the nodes and
the modifications of a group, in the guards `CanEdit`, `RoomFor`, `Insert`,
`Replace` and `ReadFifo`), `FifoMidEdit` (whether a fifo may be opened over edits
that are not committed: it breaks the history, see below).

### FifoBuffer

The writer writes one character at a time and closes; the callback of the event
loop makes up to `MaxLoop` reads of up to `BufferSize` characters (1024 reads of
2048 bytes in the code), and the writer may write between any two. Each read is an
action with all that `read_fifo` does to the text for it; the end of the
callback announces the range (`BufReadFifo`) and removes the watcher at the end of
the fifo. Nothing else edits the buffer here.

### LineBuffer, Changes and Selections

`m_lines` is the sequence of lines, `m_changes` the log, whose length is the
timestamp; a coordinate is a pair. Insertions, erasures and replacements are as in the
code, with the lines they split, join and give an end of line. `Changes` has the
trackers and the runs into which a log is cut (`forward_sorted_until`,
`backward_sorted_until`), with the coordinates of a backward run turned into those
of a forward one. `Selections` has a list of at most `MaxSelections` with a
main index and a timestamp; others change the buffer (`Edits`) and the list catches
up, or edits go through the list (insert, append, replace, erase, paste, Backspace,
what an undo changed, a description restored). Captures and target columns are left
out. `MayOverlap` allows selections that overlap, as `+` makes them.

### LineModification, WordDB, LineSpecs, Regions

What is kept by lines and brought up to date from the log: the counts of the words of
completion, the flags of `line-specs`, the matches and regions of the regions
highlighter. A word is what a line has before its end; a regex of a region matches one
character, with a table of matches by line and of the ranges of lines drawn so far, of
which each new draw may ask any; its timestamps count from 1, as a buffer's do
(`Timestamp`), so that 0 is a cache that was never filled. One follower is in each
behaviour, chosen at the start, since they do not see one another.

### EventManager, ShellManager, Remote, ServerLoop

*State.* `fds` says what each descriptor's number is open on (the listener, a
connection, an end of a shell's pipe or fifo), so that a number closed and given out
again is seen. `m_fd_watchers` is the vector of watchers in its order. `stack` has a
frame for each call in progress, the innermost one last: the main loop, a call of
`handle_next_events` with the descriptors whose turn is still to come, a
command with what is left of it, `eval` with its shell, `process_pending_inputs`
and the keys of one client. `child` has the process of the shell at each depth and
`sigchld` the signal that is pending. A connection is two counters, units `sent`
and `read`, two units for a message (header and body), over a `script` of messages
chosen at the start.

*Steps.* The server's one thread runs the innermost call up to where something can
come between: a wait, the choice of the next event, a callback, a nested call.
Exceptions (an error, `cancel`) unwind the stack up to the first frame that catches
them, and what the unwound calls had left to do is not done: the watcher of a fifo whose
command failed stays disabled, and its descriptor is never closed (`AfterFifo`); it
stays in `fds` as a leak, under its number. Children write, close their ends,
send commands through the fifo and exit; clients connect, send in pieces and leave.
Children and clients take turns only when the server is to look at its descriptors
(`Looks`, `LooksForChild`): what they do meanwhile it cannot tell from what they did
just before.

*Constants.* `Conn` and `Connections` (what connections may send), `Scripts`
and `Nested` (what children may do, at depth 1 and deeper), `MaxFd` (numbers of
descriptors; a connection is accepted and a shell started only if there are enough,
`HasFree`: what the code does when they run out - `spawn_shell` ends the server - is left
out), `MaxDepth` (shells within
shells).

### Contexts and ServerObjects

Buffers are names with a number, a window is the buffer it shows, selections are a
buffer and a place in it. `calls` holds what is left of the calls in progress, the
innermost first; a step runs up to the next hook, and a hook runs a command that
may open and delete buffers or remove clients in the middle. The state of a
context is as in the code: the jump list with its current index, the tree of
selections with the current node and the edition's nesting. A hook of each name has
one command (`HookConfigs`); `HooksAssumption` excludes those for which the code
is known not to be prepared (see below). `NamesAssumption` has commands name buffers
that there may be, and `ClientAssumption` keeps clients and buffers apart, which share
the field `at` of a call. The clients in the trash are destroyed one by one
(`DestroyClient`), each giving its window back.

### RegexNodes, RegexProgram, ThreadStack, RegexVM

Regexes are trees of nodes; the compiler's output is computed by `RegexProgram` as
the code does it, with start descriptions, jumps, lookarounds, loops that are unrolled or
counted, and the peephole optimizer (for forward programs). The machine runs one
instruction of one thread at a step, with the ring of threads and its growth, the
step counter that wraps (at `MaxStep` instead of 65,535), and the saves shared among
threads with their counts, mask and free list (`InitialCapacity`, `MaskBits`).
`IsProgram` is what the machine may expect of a program, compiled by `RegexProgram` or not.
`RegexMatches` is what it is held against: the ways a node may match from a place,
preferred ones first. Characters are one position long; `MultiByte` tells those that
the start map treats alike.

### AsyncSyntaxTree

A text is named by its timestamp, and a parse by the text that each of its
fields was made from, so that a torn result would show. The worker's steps are
its accesses to what it shares: parse the snapshot, make the index, store the
result, clear `m_job_running`, write the byte. The main thread's calls are atomic
(it never yields within them); a `join` runs the rest of the worker, of which
only the wake-up byte can be left when `m_job_running` is clear. Whether a parse is
in time, and whether it was slow enough for background mode, is open.
`Redraw` is a draw that something asked for, `Scroll` one that the user caused;
`Recreate` is the change of the language.

### SyntaxTree

A tree is named by the text in whose coordinates it is; an edit applied with the
offsets of another text, or a parse from a base in the wrong coordinates, makes
it `Garbled`. That is what `m_timestamp`, `m_edits_timestamp`, `byte_index` and
`m_pending_edits` exist to prevent. `follows` tells of each change if it is after the
end of the one before, all that `forward_sorted_until` asks. One combined layer
stands for the layers; what queries find in it is open. `in_step` is a history field:
it tells if each parse of the layer was of the text its host's tree is of, which is
not so when the host's parse timed out or is late, since layers are parsed from the text
as it is. `late_trees`, chosen
at the start and never changed, says whether draws may find a tree behind the text;
`HasInjectionQuery` whether the grammar has injections.

## The runs

All runs are complete searches of their state space, but for those that end at a
violation. Deadlock is not reported because the bounds stop the models, or because
there is nothing more to do (a fifo is closed, all keys are handled, a call is over);
what must happen before that is a liveness property.

| run | bounds | distinct states | shows |
|---|---|---|---|
| `buffer` | texts of up to 3 characters of {a, EOL}; groups of 2 modifications in short histories, histories of up to 5 nodes of short texts | 437,980 | whatever was called before, modifications fit, an unmodified buffer is the saved one, redo follows the branch last visited, and the whole is a tree of texts |
| `fifo_mid_edit` | 2 nodes, 1 modification a group, one content, no files, `FifoMidEdit` | violated | edits that outlive their history |
| `fifo_reads` | 5 characters of data, reads of 2, 2 reads a callback, three ways to scroll | 16,510 | the buffer shows the data however it is cut, hooks get the right range, the watcher goes away |
| `async_parses` | 4 versions of the text, parses may time out | 3,640 | no torn, lost or shared result, no retry of a known time-out, trees only get newer, the newest is parsed in the end |
| `syntax_tree` | 5 texts, draws in time or late | 174,655 | the host's tree is in the space its timestamp says, whichever tree is adopted; the layer's tree can be translated to the host's, unless it was parsed ahead of it |
| `selections` | texts of 1 or 2 lines of up to 5 characters, 1 or 2 selections, 3 changes | 24,081 | catching up by runs is catching up change by change; edits through selections leave each where it should be; what an undo changed is selected |
| `paste_overlapping` | the same, selections may overlap | violated | pasted text is not what is selected |
| `line_followers` | up to 3 lines, 5 characters, 2 changes and a last one: any for words, for regions one that changes the number of lines and leaves 3 characters (`MaxLastText`); new regions count as a change | 85,602 | line modifications tell exactly the lines touched; words, flags and regions are those of a rescan; edits of lines are splices of the text |
| `event_loop` | 2 connections in 3 pairs of scripts, 2 child scripts, shells 2 deep, 13 descriptors | 207,414 | no watcher reads what is another's, keys are handled once and in order and in the end, a shell gives all its output, only a failure loses a descriptor, nothing starts while a shell runs |
| `server_objects` | 2 clients, 2 names, 5 keys, 6 sets of hooks | 2,495,142 | no stale buffer, windows show their selections, histories are sound, jumps and undos come back |
| `regex` | about 370 regexes, texts of 2 to 4 characters, forward and backward, searches, iterations and whole matches | 800,104 | the machine finds what a backtracking matcher finds, with its captures; saves are counted; the ring of threads stays within its maximum; every iteration ends |
| `regex_starts` | also regexes whose start descriptions are wrong | violated | matches missed |

*Why the bounds are enough.* The hazards of the history are about a few modifications
each: two in a group tell the order of reverting from that of applying, and insertions
and erasures next to each other and at the end of the text appear in three characters,
two of which can be ends of lines. What the history does depends on the shape of the
tree: five nodes are enough for every way that the current node and the target can
lie, with the lowest common parent above both, and a branch of two nodes on one of the
sides. For a fifo, five characters are three reads in two callbacks, with ends of
lines and of data at each place of each. For the parses, four versions are the one in
flight, the one dispatched before it, the one that came meanwhile and the one after;
for `SyntaxTree` they are the versions of the layer, of the host, of the edits and of
the buffer, and one more for the tree that comes back late. Three changes are two
runs, in either order of directions, or a run of three, for the regions two updates of
the matches or one by two modifications, and two selections are what merging is about.
In `event_loop` the pairs of scripts put a client that is being made beside a command
that waits for a shell, a key that waits for a shell beside a ctrl-g, and a client
that quits before its last key is whole; two depths are a shell and the one that its
child asks for. In `server_objects` one client does everything and the other
interferes, which is what any number of others would do to the first; five keys open a
second buffer, leave it, come back and undo. The regexes are those whose threads fork,
meet, die and come back in different orders, with texts a character longer than a turn
of their loops; `MaxStep` is 2 so that the step counter wraps in every text, and the
ring begins with four places, the least that the code has, which some regexes outgrow.
The theorems need no bound.

*Fairness.* `FifoBuffer` assumes WF of the callback: the event loop calls a
watcher back as long as its descriptor is readable, and a callback goes on to its
end. `AsyncSyntaxTree` assumes WF of the worker (a thread that runs), of
`OnWorkerDone` (the wake pipe is watched) and of `Redraw` (`run_server` redraws
before it waits). Nothing is assumed of the user or of the writer.
`CatchesUp` is about behaviours in which the user stops at some time to move
around and to change languages and the last parse is in time; that premise is
needed, since a draw between the end of the worker and `on_worker_done` throws the
result away and begins again, and a draw can come there each time. `ServerLoop`
assumes WF of the server's thread and SF of the children, which do what they have to
do but are looked at only at times; clients owe nothing. `RegexVM` assumes WF of
its one thread.

## The proofs

### Buffer

For every alphabet, every set of contents and of file texts and every bound,
TLAPS proves, from `CharAssumption`, `BufferAssumption` and
`FifoMidEdit = FALSE`:

- `HistoryIsSound`: `Spec => []HistoryInv`
- `TypeCorrect`, `LinesAreAlwaysEnded`, `HistoryStaysATree`: parts of it
- `ModificationsAlwaysFit`: `undo`, `redo` and `move_to` never meet the
  assertions of `apply_modification`
- `UnmodifiedIsAlwaysSaved`: a buffer that is not `is_modified()` holds what was
  last saved or loaded
- `InverseUndoes` (of `BufferText`): a modification that fits, then its inverse,
  give the text back

The inductive invariant `HistoryInv`. That modifications fit is not inductive: it
says something of one modification now, and whether the next ones fit depends on
texts the code does not keep. The ghosts hold them, and the invariant is
that the whole history agrees with them: each group leads through the texts
of its node (`HistoryIsTraced`), a node starts where its parent ends, the current
group leads from the current node to the text (`CurrentGroupIsTraced`), and a
call in progress stands at the text of its node after as many modifications as
it has applied (`WalkIsOnTrack`, which also says where on the way between the
two ends of a move it is). `NoUndoNoHistory` says that a buffer without undo data has
nothing for the fifo's edits to contradict, and `SavedNodeIsSaved` ties the saved
node to the saved text. `TypeOK`, `LinesAreEnded`, `VersionsAreEnded` and
`HistoryIsATree` complete it.

The argument. `BufferProofs` begins with the facts about slices and splices up to
`InverseUndoes`, then has those about the tree (a branch is closed
under parents, the lowest common parent is on both branches, the child toward a
node is on its branch), and what committing and editing do to the traces; it has
one lemma per action (`InsertPreserves`, ..., `OpenFifoPreserves`)
and puts them together in `NextHistoryInv`. `Branch` is defined as a smallest
closed set rather than by recursion so that this needs no induction over data.

*The refinement.* `BufferImplementsVersions` is `Spec => ImplementsVersionTree`: a
step of a call, one modification at a time, is a step of the tree of versions or
none. Two things are needed beyond `HistoryInv`. The abstract current version
jumps at the first step of a move (`Shown`), while the buffer is still on its way:
`WalkIsOnTrack` says that it gets there. And an abstract redo goes to the version
last visited below, which the code finds by `redo_child`: that is
`RedoAlwaysFollows` (`Spec => []RedoFollowsCurrentBranch`), proved by itself from
`Linked`: the links of the branch of the place reached lead along it,
for commit, undo, redo and each half of `move_to`. The property in the run
was strengthened to what is inductive: that the links lead to the place reached,
also in the middle of a move, not only between calls.

### LineBuffer

For any lines, coordinates and strings, from `LineAssumption` (strings to insert are not
empty): `LinesAreAlwaysTheText`, for a buffer that only insert, erase and
replace change (`LineSpec`).

- Each line ends with its only EOL, and there is a line (`EachLineEnds`, which
  `Buffer::check_invariant` asserts in part): the inductive invariant.
- `insert` and `erase` make of the lines what a splice at the offsets of the
  coordinates makes of the flat text (`InsertIsInsertion`, `EraseIsErasure`): the
  EOL that a last line must have, the coordinate at the end, and an erasure
  up to the end of the buffer are where the two descriptions differ most.

`Flat`, a fold, is joined and cut at lines (`FlatConcat`, `CutAt`): before and after a
coordinate there is a part of the flat text (`Before`, `After`), and offsets are
the lengths of the first. What `do_insert` makes of a string are its pieces, each up to an
EOL, between the two parts of the line it is inserted in (`EndedAreLines`,
`NewLinesAre`); that there is one piece for each EOL, and in order, needs that the
k-th of a set of positions exists (`RankIsReached`). The inductions over the number
of lines and of EOLs are made from the smallest natural number in a set
(`LeastNatural`), since the library's induction is out of the prover's reach.

### FifoBuffer

For every alphabet, every size of the chunks, any number of reads a callback and any
amount of data, from `CharAssumption` and `FifoAssumption`: `FifoIsSound`
(`Spec => []FifoInv`), `BufferAlwaysShowsLines`, `AnnouncedIsAlwaysRead`. `FifoInv`
has what the code relies on between two reads: `BufferShowsLines` for what was
received so far, what `m_had_trailing_newline` says of the received data
(`RemembersTrailing`), that nothing but the initial line is there before the first
chunk (`NothingReceived`), and where the range to announce begins (`BeginIsFresh`).
The lemmas are about splices: a chunk put before the last end of line, and the erasure
of the first line, as functions of the text.

### AsyncSyntaxTree

For every `MaxTime` and `MayTimeOut`, from `AsyncAssumption`:
`BackgroundIsSound` (`Spec => []AsyncInv`), `NothingIsShared` (`TypeOK`, whose
core is that `m_job_running` is up exactly while the worker may touch what it
shares), `CurrentIsAlwaysOneParse`, `NoResultIsLost`, `TimedOutIsNeverRetried` (an
action property) and the refinement `TreesOnlyGetNewer`
(`Spec => ImplementsHostParse`).

`AsyncInv` adds to the properties what ties the two threads together:
`TimesAreOrdered` (the tree there is not newer than the text last dispatched,
which is why a result taken over never goes back), `WorkerIsOnTrack` (the fields of
the parse, by the worker's step), `JobIsAccountedFor` (a finished job's tree is
waiting and the wake-up is on its way, or it was taken over; or there was none,
and that is known or will be) and `JoinedIsKnown` (without which a joined worker's
time-out could be tried again). One lemma per action; `HostStep` maps each to a
step of `HostParse` or to a stutter.

### SyntaxTree

For every `MaxTime` and `HasInjectionQuery`, late draws or not, from the assumptions
of `HostParse` and `SyntaxTree`: `SyntaxTreeIsSound` (`SyntaxSpec => []SyntaxInv`),
`TreeIsInItsSpace`, `EditsAreAhead`, `SyntaxTypeCorrect` and `LayersFollow`
(`LayerFollowsTree`).

`ByteIndexIsOfTree` is the part that makes it inductive: offsets of edits are
computed from the byte index, and a full parse that times out replaces that but
leaves the tree. What saves it is that the full parse was made because the changes
since were not in order, and they will never be: no edit is computed from that
index again. The lemmas follow the code: one per function on a `SyntaxTree`
(`ApplyEditsIsSound`, `FullParseIsSound`, `UpdateIsSound`, `AdoptIsSound`,
`DetectInjectionsIsSound`), then one per action.

`LayerFollowsTree` is inductive with `SyntaxInv`: each of `adopt_tree`,
`apply_edits`, `detect_injections` and the time-outs moves the layer's tree and its
pending edits together. It is about layers that were never parsed ahead of their host
(`in_step`): of the others the code itself does not know in which space they are.

### ServerLoop

For any number of connections, whatever they send, any scripts of the children and
shells nested to any depth, from `MaxFdAssumption`, `ShellAssumption` and
`ConnAssumption` (finitely many connections):

- `ServerIsSound`: `Spec => []Inv`
- `WatchersAreAlwaysOwners`: no callback reads or closes what belongs to another

and from that, in the second half of `ServerLoopProofs`,

- `NothingEverStartsMeanwhile` (an action property)
- `KeysAreAlwaysInOrder`: `Spec => []KeysInOrder`

The inductive invariant `Inv`. That no watcher watches a number given to
another depends on every place where a descriptor is closed, and on which calls can
be in progress there. `Inv` says which call may run on top of which (`CallsFit`):
events of the main loop at position 2, and on top of them only what a Normal
round or the keys can call, so that the branch in which an accepter finds that its
client is being made is shown not to be reached in Normal mode. It says that the
shells in progress have the depths 1 to n, the deepest innermost; that what a frame
refers to is there (`FramesFit`); that a connection has an accepter or a UI, and both
only while the client is being made, and that each UI has its watcher (`ConnsFit`);
that no two watchers are of one owner, and each watches its owner's object or
nothing (`WatchersFit`); and that open descriptors are on different objects, of
connections and shells that there are, or leaked (`FdsFit`). What a new shell opens gets
numbers that were free and is new; a shell that returns is the deepest, so nobody else
uses what it closes, and what it leaks is watched by nobody; an exception unwinds shells
from the deepest on.

`NothingStartsMeanwhile`: what starts - a client, a command, keys - is always the
third call of the stack, while a shell that is waited for is further up, and every
step keeps what is below.

`KeysInOrder` needs that the keys handled, those in the hands of
`Client::process_pending_inputs` and those that wait are, joined, numbers of
messages read so far, rising, and without ctrl-g all of them (`KeysInv`). Most
steps are calm: they leave the three alone, or drop calls that are not of keys.
Reading appends the next numbers, a ctrl-g drops those that wait, and the four
steps of the keys move them from one to the next.

### Contexts and ServerObjects

For any clients, names of buffers, places, keys and bounds, and any behaviour in which
each hook that is set is a `BufCreate`, `BufClose`, `WinCreate` or `WinClose` that
opens a file (`HooksOnlyOpen`, a condition on `hooks`, which never change). From
`NamesAssumption` and `ClientAssumption`:

- `ObjectsInvHolds`: `Spec /\ HooksOnlyOpen => []ObjectsInv`
- `NoStaleBuffersHolds`: between keys nobody refers to a buffer that is gone
- `WindowShowsSelectionsHolds`: windows show the buffer of their client's selections,
  and nothing is left locked or marked as running
- `HistoriesAreSoundHolds`: jump lists and histories are sound, and the editions are
  those of the mode

These hooks run in the context of the buffer they are about, at each place where
buffers and windows come and go, and each may open further buffers, whose hooks run in
turn; clients with keys of every kind do the rest. Hooks that delete buffers, quit, or
change the buffer of a client (`WinDisplay`, `ClientCreate`, `ClientClose`) are in
the run and not in the theorems: with them a call may be overtaken by another of
its own kind for the same client, which the order of calls below does not allow for.

*Contexts.* First each operation alone keeps a context `Sound`, with selections and
jumps in whatever sets they were from: pushes, jumps, both ways of going
back, the ends of editions, `SelectNext`. `ForgetNodesIsSound` is the long one: that
erasing the nodes of a buffer and renumbering the others leaves a tree, with
each parent before its children and `redo_child` its child's parent, and no
node of the buffer. It rests on `KeptIs`: what a list keeps of some places is in
their order, and `Rank` says where each of them is.

*The inductive invariant* `ObjectsInv`. While a buffer is being deleted clients do refer
to it; what is true is that a call that will make them forget is still to come. So:

- `Stacked`: which call may be above which. Hooks (`Noise`) may be above anything but
  what a key starts with; a client on its way to another buffer (`Switch`) only above
  what asked it to move, and with nothing else on the way below; the calls that
  forget a buffer only above those for the same buffer. So there is at most one
  deletion and at most one switch at a time.
- `CallsKnow`: what each call holds on to. A `change buffer` is to a buffer in the
  list, a `forget` is about one in the trash or about to be deleted, an undo that
  crosses buffers stands at the node it found (`UndoKnows`); whoever is still in
  the forgotten buffer has a switch above (`GoesOn`), and the switch above a jump
  goes where the jump goes (`HeadsThere`).
- `ClientsFit`: contexts are sound, with jumps and nodes only in buffers in the list
  and those that a call is going to make this client forget (`JumpsOf`, `NodesOf`: jumps
  are forgotten before the switch, nodes after it); the window is the selections',
  and the editions are the mode's and that of a jump in progress.
- `LocksAreHeld`, `HooksAreRunning`, `WindowsAreOpen`: every lock, mark and free window
  of a deleted buffer has the call that will take it away.
- `Apart`: no buffer or client is both in its list and in its trash.

When no call is left only the lists remain, and the three properties are what
`ObjectsInv` says then (`OfTheInvariant`). There is one lemma for each action
(`RunHookStep`, ..., `GoToLastStep`). The actions of hooks leave everybody else's data
(`QuietData`); those of a client change one context, and for the other clients
`StillRefers` is enough; `RemoveBufferStep` is where the debt arises, one `forget` for
each client, and `ForgetBufferStep` and `ForgetHistoryStep` pay it.

### RegexVM

For any program, subject and call, from `RunsAnyProgram`: the specification of the
machine with any program that `IsProgram` in place of a compiled one. `IsProgram` says
that no jump leaves the program, that it ends with a Match and that positions are
saved where there is room for them; `CompilesToPrograms` has TLC see that of all
the programs of the run. From `CapacityAssumption` and `VMAssumption`:

- `VMInvIsInvariant`: `RunsAnyProgram => []VMInv`
- `SavesAreAlwaysCounted`: saves have the refcount of their holders, and the free
  list has, once each, those that nobody holds
- `RingIsAlwaysBounded`: the ring of threads grows to twice the number of
  instructions at most, as `DualThreadStack` claims (`regex_vm.hh:760`)

`ThreadStack` first: wherever its two parts lie in the ring and wrap around,
`Current` and `NextThreads` are two stacks, and each operation is that of a stack
on one of them; when it grows both are as before. These lemmas hold for every capacity
and any things in the ring.

`SavesAreCounted` is not inductive: it follows the free list through the records by
`next_free`, which a step may change anywhere. `VMInv` says in its place that there
is a sequence of all that is free, without repetition, whose members are linked in
that order (`SoundSaves`), and that the record of everything else counts its
holders: the threads of the two stacks, the thread being stepped and the captures.
Sharing, releasing and taking new saves are three lemmas about records and counts
(`ShareKeepsCount`, `ReleaseKeepsCount`, `NewSavesAreCounted`), and each
action is a move of one holder, a release, or one of them. The rest of `VMInv`
is that threads stand at instructions of the program. That the function
`FreeList` of the model is this sequence read backward is the one induction,
over the places in the list.

The bound of the ring is not inductive either: a loop could fork threads for ever if it
were not for `last_step`. `RingInv` counts by it: the threads that wait for
the next step are at most the instructions that consume a character and ran in this
one, and all the threads are at most one more than the instructions of the program
that consume, and those that fork and ran in this step. A fork pays for the
thread it adds with an instruction that runs and cannot run again, a thread that
consumes moves from one count to the other, and the search starts a new thread only when
there is none left of the step. There is a Match that does neither, so that
these are never more than the instructions.

### Only model-checked

- Liveness (`ClosedInTheEnd`, `CatchesUp`, `KeysAreHandled`, `CallsEnd`): the
  prover has no fairness or ENABLED, nor induction over data.
- `EvalIsComplete`: it holds for the scripts given to TLC, not for all. A fifo's last
  commands may be lost when the child closes its output first (see below).
- `OnlyFailuresLeak`: it needs, besides `Inv`, how the frames of an `eval` and of its
  fifo lie on the stack, and which watcher is disabled while each of them runs.
- `RegexMatches` and `RegexProgram` are recursive over data, and with them
  `MatchesAsSpecified` and that what is compiled satisfies `IsProgram`.
- `RoundTrip`, and the other properties of `ServerObjects` with hooks that delete
  buffers, quit or move clients (`HooksOnlyOpen` fails).
- `Selections` and the followers of lines. `FollowsItsCharacters`,
  `WordsOfText`, `ModificationsAreExact` and `RegionsOfText`
  compare folds over the log with one another, by induction over data.

## Where code and words differ

Three have a run that finds them, and are findings in `PROJECT.json`.

- `fifo_mid_edit`: `create_fifo_buffer` on a buffer whose edits are not
  committed sets NoUndo before it reloads, so that `commit_undo_group` returns
  early; the group survives the history it belongs to, and becomes an undo group
  of another text when the fifo is closed. The theorems exclude it by
  `FifoMidEdit = FALSE`.
- `paste_overlapping`: `for_each` moves overlapping selections that are appended to
  with a timestamp of its own and never sets the list's, so that the next
  update moves the selections of the pasted text by the pastes they are made of.
- `regex_starts`: a match of the whole text is rejected by its first character
  although the start description has an offset: `.a` does not match "xa"
  (`regex_vm.hh:491`). The same run has the other wrong descriptions: `(..)*a`
  searched in "xxxxxa" starts at 3 instead of 1 (`regex_vm.cc:956`), and `\N+a` in
  "éba" in the middle of a character (`regex_vm.cc:965`).

Seen while modelling, without a run of their own:

- Buffers: a first line of a fifo that is empty is dropped when the buffer does not
  scroll (`StartsWithEmptyLine` excludes it). `replace` through selections that
  overlap calls `char_next` on the end coordinate; Backspace is not prepared for
  them either.
- Trees: a parse that times out asks for no redraw, also when the text changed
  meanwhile; a draw between the end of a timed-out worker and `on_worker_done` parses
  the same text again (`syntax_tree.cc:1352`). When draws find late trees, layers are
  parsed ahead of their host, which `LayerFollowsTree` excludes (`in_step`), and a
  draw may adopt a tree older than the one a command made (`syntax_tree.cc:1556`),
  though the header has it adopted "when it advanced" (`syntax_tree.hh:337`); its
  edits are rebuilt from its own time, so it is in its space all the same
  (`TreeInItsSpace`). Without an injection query `detect_injections` never empties the
  pending edits (`syntax_tree.cc:855`).
- Events: `force_signal` resets the time-out, so that `pselect` blocks with a signal
  forced (`event_manager.hh:98`). An event of the listener that is stale would block
  in `accept`.
- Remote: the comment of `remote.cc:772` has the socket handed over as soon as the
  client is made; while its first commands wait for a shell, the Accepter's watcher
  is found first for the RemoteUI's descriptor (`remote.cc:794`). A paste is
  executed at once, in Urgent mode too, ahead of keys that wait.
- Shells: a command of the fifo that fails, or is cancelled, leaks the fifo's
  descriptor: the watcher is disabled while it runs (`shell_manager.cc:192`), its
  reset is skipped (`:252`), and `close_fd` finds nothing to close (`:260`,
  `event_manager.cc:33`); `OnlyFailuresLeak` says that this happens in no other way. A
  command that fails makes the fifo of `eval` dead although its child goes on writing
  (`shell_manager.cc:252`, against `doc/pages/expansions.asciidoc:187`), and after its
  first use the fifo's end wakes the loop for ever. A nested `eval` finds SIGCHLD
  blocked already (`shell_manager.cc:308`). Commands sent just before the output ends
  may not be run.
- Clients and buffers: the loops over `m_clients` run hooks that may quit
  clients (`client_manager.cc:182`); deletions in hooks of `WinCreate` leave a
  selection undo with a node that was renumbered; a `BufCreate` hook may delete
  `*scratch*` while `get_first_buffer` makes it; `last_buffer` may pick a buffer in the
  trash during nested deletions (assertion at `client_manager.cc:154`);
  the Locked flag is not counted; `last_buffer` computes
  `current_index() - 1` for index 0 (`context.cc:358`); `end_edition` compares the
  timestamp of another buffer after `change_buffer` (`context.cc:418`); without a
  client a selection undo ignores its callback (`context.cc:256`); a once-hook
  that throws is not erased (`hook_manager.cc:153`).
- Regexes: `a{0}` matches "a" (`regex_vm.cc:861`, against
  `doc/pages/regex.asciidoc:112`); `\K` in a backward search is overwritten by the last
  save; more than 16 captures shift by 32 and more; an empty turn of a loop is
  accepted only as the first at its position (`LoopsConsume`).

## What is not modelled

The table of the system says what each part would have to satisfy, and
`PROJECT.json` gives the reason for each. Out of scope: rendering, terminal and
JSON protocols, parsing of commands and of regexes, the loading of grammars,
tree-sitter itself, containers and strings, which are pure, do I/O, or are
not the program's own; normal mode, selectors and text objects, which map selections
to selections; completion; options, keymaps and the stack of input modes; files. The
model is of a core, not of the greater part of the lines: commands, highlighters
and normal mode are most of the source, and mostly sequential.

Of the modelled parts these are left out: `rename-buffer` between files and
scratch buffers, the ranges of injections and the pools of several layers, the
highlighters other than regions and line-specs, the reload dialog, once-hooks,
groups and scopes of hooks, the window trash, the debug buffer, keys that a
client in the trash has yet to handle, what the server sends, timers with callbacks of
their own, the error output of shells and input that is not empty, bytes of
characters and ignoring case in regexes.

## The plan

Done: the models above with their runs, and the theorems of `Buffer` with its
refinement, `FifoBuffer`, `AsyncSyntaxTree`, `SyntaxTree`, `ServerLoop`, `RegexVM`
with its ring, `LineBuffer`, and `ServerObjects` with hooks that open files.

Left, and the order in which to take it:

1. `ServerObjects` with hooks that delete buffers: an order of calls in which several
   deletions are in progress, each with its own debts, and what an exception drops of them.
2. `Selections`: that an update leaves coordinates in the lines there are, on top of
   the lemmas of `LineBufferProofs`; then `CheckInvariant`.
3. `LineModification` on one change, and `MovedLine`.

The hazards without a property (`PROJECT.json`) stay for a model of the reload
dialog, of once-hooks and of option watchers.
