# OTPasswd in TLA+

OTPasswd lets a Unix user log in with one-time passcodes from a printed card.
A PAM module (`src/pam`) asks for the passcode of the user's counter; a command
line utility (`src/utility`) talks to a SUID agent (`src/agent`) to make keys,
print cards, skip and change settings. Both sides share `src/libotp`, which keeps
each user's state (key, counter, flags, failures, time of the last out-of-band
message) in a text file and protects it with a lock file. No process talks to
another one on the PAM side: all they share is that file.

What makes this hard is that every promise (a passcode is good once, a disabled
state stays put, a failure is not forgotten) rests on a protocol between
processes that were started independently, may be killed anywhere and work on a
copy of the state while a human being thinks.

## Inventory

| part | state it keeps | operations | what makes it correct |
|---|---|---|---|
| lock of the state file (`db_file.c`) | the name `lck`, the inode behind each descriptor, the kernel's locks | `db_file_lock`, `db_file_unlock` | one process inside; only one's own file is unlinked; nobody waits for ever |
| state file (`db_file.c`) | `db`, `db.tmp`, what is durable | `db_file_load`, `db_file_store` | old or new entry after any failure; other users untouched; honest result |
| transactions (`ppp.c`, `state.c`) | the entry, the copy of each process | load, increment, skip, failures, channel time, new key, remove, flags | no lost update, the lock given back on every path |
| PAM module (`pam_otpasswd.c`, `pam_helpers.c`) | counters of the login loop, its copy of the state | `pam_sm_authenticate`, `pam_sm_open_session` | each passcode accepted once, guesses bounded, every session ends, OOB throttled |
| counters and cards (`ppp.c`, `actions_helpers.c`) | counter, salt, code length | `ppp_calculate`, `ppp_verify_range`, `ppp_add_salt`, address parsing | addresses agree, range and salt hold at the boundaries |
| agent requests (`request.c`) | one state per connection (`a->s`), `new_state` | 25 requests | written under the lock only, own fields only, nothing after an error |
| agent protocol (`agent_private.c`, `agent_interface.c`, `agent.c`) | two pipes, header buffers, `a->error` | connect, query, reply, disconnect | an answer is the answer to this query; calls return; no agent stays behind |
| privileges (`security.c`) | three uids | init, switch, drop | nobody but root talks to a root agent |
| utility (`otpasswd.c`, `actions.c`, `actions_helpers.c`, `cards.c`) | options | key, print, skip, configure, remove, password, information | no key in force whose card is not on paper, `latest_card` true to the paper |
| configuration (`config.c`) | `cfg_t` | parse once | what is checked starts |
| static passwords (`ppp.c`) | hash, time | set, validate | policy on the password |
| 128-bit numbers (`num.c`) | two limbs | add, sub, mul, div, import, export | agree with arithmetic |
| AES, SHA-256, logging, translations, self tests, MySQL and LDAP stubs | | | |

The parts interact by calls (`pam_sm_authenticate` -> `ppp_*` -> `state_*` ->
`db_file_*`; utility -> pipes -> agent -> `ppp_*`) and through the file. Four
things are hard: processes that overlap on the file, a state in memory that is
older than the one on disk, processes that die or fail half-way, and numbers at
the ends of their ranges.

## Modules

    StateLock <- PppState <- PamAuth <- MCPamAuth          (<- : is extended by)
        ^- StateLockProofs, PamAuth <- PamProofs <- PamOnceProofs
        ^- MCStateLock
    StateDb <- MCStateDb, StateDbProofs              StateDb implements UserTable
    Passcard <- PasscardProofs
    Passcard, Num <- CardNumbers <- MCPasscard
    CardNumbers, PasscardProofs <- CardNumbersProofs
    AgentRequest <- Utility <- MCUtility, UtilityProofs
    Config <- AgentSession <- MCAgentSession, SessionProofs
                                                AgentSession implements Channel

The models rest on each other: the lock AgentRequest takes in one step is what
StateLock describes step by step, its one-step store is what StateDb shows, and
its strict turn of request and reply is what AgentSession shows of the pipes.

**StateLock** models `db_file_lock` and `db_file_unlock` between system calls.
`link` is the inode the name `lck` refers to, `fd[p]` the inode process `p` has
open (`s->lock`), `lpc[p]` how far it is, `tries[p]` the loop's `cnt`. `open` with
`O_CREAT` takes the linked inode or a fresh one; `fcntl(F_SETLK)` succeeds unless
another process owns the same inode; unlock unlinks first and unlocks second;
`die` lets the kernel close the descriptor and leaves the file. `stale` is a
history variable: it becomes true when a process is handed the lock of an inode
that `lck` does not name. The permission checks and `_db_path` are one action,
`db_file_lock_refused`, which returns either error at will.

**PppState** adds the transactions of `ppp.c` on one user's entry: a process goes
through `lock`, `load`, `work`, `unlock`, `return` (`step`), the lock and unlock
phases being the steps of StateLock. `db` is the entry, `buf[p]` the state the
transaction works on, `res[p]` its return value. A store writes the entry or
fails; that nothing in between can happen is what StateDb shows. A key is the
ordinal of its generation and a passcode the pair of key and counter: the random
key and the cipher are taken to be injective.

**PamAuth** adds the login loop, one action per stretch of `pam_sm_authenticate`
and its helpers between two transactions or two messages to the user. `s[p]` is
the session's state in memory, `turn[p]` the variables `tries`, `first_try`,
`dont_increment`, `oob_sent` and, while a sender runs, `times`, the turns left before
`ph_oob_send` kills it. The user may answer rightly, wrongly, with a dot or
not at all. Beside the sessions, `utility_call` runs any transaction of libotp
(`UTILITY`), as the agent and `pam_sm_open_session` do; `killed` ends a process
anywhere; `tick` advances `time(NULL)`. `judged` and `accepted` count comparisons
and acceptances per passcode, over all sessions.

**StateDb** takes `db_file_store` apart: open, copy the lines before the entry,
write the entry, copy the rest, close, `sync`, `rename`. Each call may fail, the
process may be killed between two of them and power may be lost; `disk` is what
the last `sync` made durable, `synced` whether the data of the file named `db` is
on disk. After a second entry of the user `db_file_store` goes to `cleanup` with
`ret == 0`: there a failing flush truncates `tmp` unnoticed (`store_cleanup`), while
before `sync` it is reported (`store_close`). A line is sound or broken (too long, too short), as
`_db_find_user_entry` sees it. **UserTable** is the abstract specification: a
table changed for one user at a time, which a power failure may take back to the
last `sync`. Its table is what a load finds (`Loaded`): the first entry of the user,
nothing if a broken line comes before it (`db_file_load` fails then), and with
`DB=user` only the owner's entry, since nobody else's is looked for in that file.

**Passcard** is the arithmetic: positions, `max_card`, `max_code`, range check,
salt, addresses. The masks are parameters (`CODE_SPACE` 2^32, `FULL_SPACE` 2^120
in the code), and so is the largest counter `ppp_verify_range` takes (`MAX_COUNTER`);
that check sees the counter with its salt, so a key with one of the very largest
salts is refused as if its file were broken.

**Num** is `num.c`: `num_t` as two words of `W` bits, each operation with the wrap
of its words and with the overflow it reports; loops over 128 bits are loops over
`2 * W` bits, one operator for a turn (`MulTurn`, `DivTurn`, ...) and `Loop` for the
repetition. `Power(b, n)` is b to the n, by its recursive equation. **CardNumbers**
computes Passcard's cards, limits and passcode letters (`passcode_letters`) with it,
as `ppp_calculate` and the loop of `ppp_get_passcode` do; AES is an arbitrary cipher
text.

**AgentRequest** has one action per request type. `s[p]` is the agent's `a->s`
(NULL, or the entry with its card and `new_key`), `new_state[p]` the flag under
which changes stay in memory. A request that works on the file is two steps:
lock, load and change; then store, unlock and reply (`Finish`), so other agents
and logins come between. The oddities of the code are kept: `s->flags` starts as
whatever `malloc` left, `STATE_NUMSPACE` counts as a successful load though the
lock is gone, a refused static password is stored all the same, `ppp_get_prompt`
leaves a zero counter behind, `_verify_spass` counts each character twice,
`ppp_get_passcode` answers OK without a passcode if the alphabet is denied. A request
that the policy refuses is answered; unless the refusal is `AGENT_ERR_POLICY` the
agent then ends (`Refuse`, `bye`). Loads may fail with any error `ppp_state_load`
returns (`Reading`, `Loading`).
**Utility** parses a command line (`getopt` is the loop over the options,
`process_cmd_line` adds the check after it and returns the options with an error or
without), turns it into the script of requests and questions of its action and walks
through it, deciding on each reply what comes next (`After`). Nothing bounds
`latest_card` from above, as nothing in the code does: the card after the last
printable one may be recorded. `printed` records the paper: sheets of
cards with the key they were computed from. `login` is a PAM login by the same
user, `kill` ends a utility with its agent anywhere.

**AgentSession** is one run of a utility and its agent: pipes, `fork`, `exec`,
`security_init`, configuration, loss of privileges, the initial frame, queries and
the end. A header is written field by field and read in pieces of any size, and
a read may fail: `agent_read` then leaves its static `buffered` negative, and the
utility is `stale`. A further query would take old bytes for its answer; the actions
of the utility give up after the first error of a query, so none is made. The set `ends` says who has which end open, so end of file and broken pipes come out
as the kernel would give them. Either side may be killed anywhere, the agent's
binary may be missing, another program or of another protocol version.
**Channel** is what the pipes promise: the reply to this very query, or a
connection that is lost for good. **Config** is the parser: a file is a sequence of
lines with typed values, parsed in order (`Parsing(file)[n]` is what the first `n`
lines leave), with what `--check-config` verifies.

## What TLC checks

| run | instance | what it shows |
|---|---|---|
| `state_lock` | 3 processes, 3 inodes, 2 tries | `ExclusionUnlessStale`, `HolderIsNamed`, `UnlinksOwnFile`, `LockAttemptEnds` |
| `lock_race` | the same | **violated** `MutualExclusion`: waiter with the old inode, newcomer with a new one |
| `pam_auth` | 2 processes, 2 inodes, 2 passcodes, 2 keys, and either 3 operations with the utility at work or 2 sessions with dots and 1 tick | `OneTime`, `GuessesBounded`, `LockReleased`, `NoLostUpdate`, `DisabledFrozen`, `OobRecordedFirst` |
| `pam_ends` | 2 processes, all settings of OOB, static password or none, one try or retries, removal, `pam_sm_open_session`, a sender that may hang | `SessionEnds` |
| `skip_backward` | as `pam_auth` without OOB, utility skips | **violated** `CounterForward` |
| `oob_throttle` | OOB always, retry with the same passcode | **violated** `OobThrottled` |
| `state_db` | 2 users, 2 values, 3 stores, global or user's own file | `ImplementsTable`, `OthersKept`, `ReturnHonest`, `StoreReturns` |
| `db_duplicate` | a file with two entries of one user | **violated** `OthersKept` |
| `passcard` | spaces of 481 and 512 counters, 3 salts, one of them refused, all lengths, words of 8 bits | `AddressRoundTrip`, `OnPrintableCard`, `SaltKept`, `ReadingOrder`, `WordsAgree`, `DigitsFaithful` |
| `utility` | a user's and root's utility, 26 command lines, 2 commands, 1 login, 3 policies, no entry or counter 2 or 4 of 4 | `PipesUnlocked`, `LatestPrintedUnlessLatex`, `StoredKeyShown`, `AgentWrites`, `LatestForward`, `SaltFixed`, `RefusedUnchanged` |
| `latex_latest` | one utility prints a page of six cards | **violated** `LatestPrinted`: the seventh is recorded |
| `agent_session` | 37 installations, root, a user and an unknown uid, 3 queries, headers of 3 fields | `LoopUnprivileged`, `CheckedConfigStarts`, `ChannelSpec`, `CallReturns`, `AgentEnds` |

The violated properties are what a comment or document of the repository says;
`PROJECT.json` quotes each under `findings`. Because of the first one, the
properties of PamAuth are stated for behaviours in which no lock was stale
(`~stale`), and those about passcodes also for behaviours without a backward skip
(`~rewound`): both conditions name the defect that would break them, and both
are reached in the runs.

Three properties are checked, and proved, in the form that does hold:
`LatestPrintedUnlessLatex` leaves out the card after a page of LaTeX (`AfterPage`;
`action_print` adds six to the number of the first of six cards, see `latex_latest`).
It and `StoredKeyShown` suppose that the policy does not deny its own default
alphabet (`CanPrint`): else `ppp_get_passcode` answers 0 without a passcode, the first
card comes out blank and the key is stored. `ReturnHonest` is about files with
one entry of each user (`UniqueFiles` in the run, `OneEntryEach` in the theorem): after
a second entry of the stored user `cleanup` ignores a failing flush with `ret == 0`,
renames the truncated copy and 0 is returned. The "latest card" may also belong to the key
before, if the key was replaced while a card was printed.

Where the code does something unexpected and nothing in the repository says
otherwise, the property says what does hold and names the exception.
`SessionEnds` excepts the user who answers with a dot again and again: after an
out-of-band request the loop of `pam_sm_authenticate` continues with the same question
and counts no try (with `PAM_OOB` 1 and 2), so only that user ends the session.
`CheckedConfigStarts` excepts `DB=global` without a `USER` (also with one
that comes after `DB=user`, where it is ignored): `--check-config` finds it fine and
the agent ends without a word, because `setresuid(-1, ...)` changes nothing. Two
more observations have no property: a dot as passcode with `PAM_OOB=0` reaches
`assert(0)` in a build without `NDEBUG`, and the address parser refuses column K,
which cards of two-letter passcodes have.

### Bounds

Three processes are needed for the race on `lck` (holder, late waiter,
newcomer), and an inode for each; two are enough for every property that assumes
no stale lock, since each is about a pair of processes. `TRIES` is 1 or 2 instead
of 20: the loop's turns are alike. Two passcodes give a current, a next and an
exhausted counter; two keys a replaced state. Three operations allow two sessions
and a utility call between them. In `pam_auth` the constraint `UtilityOrOob` keeps the
clock still where there is no OOB, and the utility away from the two sessions where
there is. One tick is one whole `pam_oob_delay`; `pam_ends` has a
delay of 0 and no clock, so that every request sends. `WAITS`, the turns of the loop
that waits for the sender, is 1 instead of 200: a sender that ends in time and one that
is killed. Three
stores let a store run over a left-over `db.tmp` after a kill, twice. The spaces
of Passcard hold four of the largest cards and one is no multiple of any card, so
that both divisions leave remainders; the theorems remove this bound. With words
of 8 bits a counter of 512 uses both words, and `WORD * WORD - 1 - counter` makes
the same counters run through the largest numbers, where products overflow.
`MAX_COUNTER` 961 lies inside the range of the third salt, so counters of two salts
pass the first check and those of the third do not.

In `utility` two commands overlap with each other, a login and a kill: every
property there is about a pair of transactions. Four counters are two cards of two
passcodes or, with the longer code length, four cards of one, so a LaTeX page
(`LATEX`, 2 instead of 6) fits once or twice and `config` changes the cards under a
counter; `Used` starts with the second card and with an exhausted key. Three policies:
all allowed, one that denies printing, regeneration and disabling and enforces
`show`, and one whose only alphabet is shorter than it demands. `Passwords` are what
the prompt for a static password may return: none, one that the policy takes, one
without the digit it wants, or two that differ. `latex_latest` has pages of six cards, as the code.
In `agent_session` three fields are enough for a header to be cut before,
in the middle and after, and three queries for a reply to be late by one.

### Fairness

Weak fairness per process on what its code does by itself: a process that is not
killed runs on. In PamAuth this includes the user's side of the conversation,
because `SessionEnds` is about sessions whose user answers or hangs up (the
conversation function returns); which answer it is stays open, so the user may answer
with dots for ever, the exception in the property. A sender need not end: it is the
count of turns that ends `ph_oob_wait`. Starting a session, being killed and the clock
are never forced. In StateLock opening `lck` is not forced either. No strong
fairness is used: the lock loop gives up after `TRIES` turns. In AgentSession each of
the two processes gets weak fairness for what it does by itself; that a utility
queries or disconnects, that somebody is killed and that a foreign program ends or
writes is never forced, nor is a read that fails. `CallReturns` holds for a foreign program that neither ends
nor writes as well, because `agent_wait` has its timeout; that timeout may strike at
any moment without data. `utility` checks safety only.

## What is proved

Every theorem holds for all values of the constants that satisfy the assumption
named in the module; TLC evaluates the assumptions on each instance. They say that
special values are not ordinary ones (`None` is no inode, `NoState` no state, `Free`
no process, `Absent` no sequence of lines), that bounds are numbers, and, of the
configurations and installations, what their C types say: lengths that have a card,
alphabets that exist, uids that are not negative, files with finitely many lines.
`WordAssumption` and `NumberAssumption` say of Num that words have a multiple of 4
bits and at least 8, and that two words hold every counter and one the length of the
alphabet: the code has words of 64 bits, counters below 2^120 and at most 88 letters.

All safety properties of the passing runs, invariants and action properties, are
theorems, and so are both refinements. In
each proof the property is not inductive as it stands; what had to be added is the
argument why the code is right.

**StateLockProofs** (`LockInv`): a process between open and close has a descriptor,
an inode has one owner (what fcntl gives), and whoever is inside holds the inode
`lck` names as long as nobody was late. Two holders hold the same inode, which has
one owner: `ExclusionUnlessStale`, `HolderIsNamed`, `UnlinksOwnFile`.

**PamProofs** (`PamInv`): where a process is in its transaction says whether it has
the lock (`LockPhase`), a transaction that works has loaded a state (`WorkLoaded`),
and a session that asks has a passcode and a try left. Hence `PamTypeOK` and
`LockReleased`.

**PamOnceProofs** (`DiskInv`): what a transaction loaded under a lock that was not
stale is the entry on disk when it stores (`Current`), and a key that waits to be
stored is nobody else's. Hence `NoLostUpdate` and `DisabledFrozen`. `PamOnceInv`: a
passcode reserved by a session, by the increment that is still in flight too, lies
behind the counter of its key or belongs to a key that is gone; no two sessions have
the same one; it was not accepted, nor judged more often than its session has asked.
Hence `OneTime` and `GuessesBounded`. `OobInv`: between
`ppp_oob_time` and the sender nobody puts an older time on disk, from a state loaded
before or by storing that key anew. Hence `OobRecordedFirst`.

**StateDbProofs**, for files of any length. `TypeInv` is the typing with the stage
of the store. `WrittenInv` says that `tmp` is the new entry between sound lines of
others. `ReturnHonest`, `OthersKept` and `ImplementsTable` are proved under
`OneEntryEach`: no user has two entries in the files the system starts with; lines may
be broken. The run `db_duplicate` shows that this cannot be dropped; that stores keep it is part of `CopyInv`, whose
main part is that `db` is `(b \o m) \o rest` whenever `tmp` is `b` with the new
entry, `m` being what `db` says of the user. The lemmas about a load, the users
and the lines of others in two files one after the other (`LookupConcat`,
`UsersConcat`, `OthersConcat`) carry the argument.

**UtilityProofs**, for any number of utilities and any command lines. `LockInv`:
only an agent about to store has the lock (one that took `STATE_NUMSPACE` for success
goes on without it, and its store fails); what the holder is about to write is the
entry on disk with its own fields changed. Hence `PipesUnlocked`, `AgentWrites`, `RefusedUnchanged`.
`TypeInv` types requests by the command line they come from (`UtilTypeOK`).
`KeyInv`: a key an agent made and has not stored is nobody else's, and
UPDATE_LATEST is never about to take the latest card back (`LatestForward`).
`OrderInv`: what is about to become the key or the latest card was put on paper
before, if a passcode of the default alphabet can be printed at all (`Printing`, which
`CanPrintFacts` derives from `CanPrint`), or follows a page of LaTeX
(`LatestPrintedUnlessLatex`, `StoredKeyShown`); and a flag request never changes
`salted` of a stored key (`SaltFixed`).

**SessionProofs.** `PrivInv` follows the three uids from `exec` to the loop;
`ConfigParsed` says what parsing keeps for a file of any number of lines. Hence
`LoopUnprivileged`, `CheckedConfigStarts`. `ProtocolInv` is the strict turn: one header
under way at most, its fields in order and of the open query, an agent that writes
only after it has read a whole request, a utility that asks nothing after a read that failed, pipe ends that are open exactly where the two
programs are in their code. Hence `SessTypeOK` and the refinement `ChannelSpec`.

**PasscardProofs**, for every pair of spaces larger than 330 counters (three of the
largest cards) and any number of salts: typing, `AddressRoundTrip`,
`OnPrintableCard`, `SaltKept`, `ReadingOrder`. `CardInv` says that a salted counter lies between
its salt and the next one. The lemma `MaskedSalt` is the uniqueness of quotient
and remainder; `SplitExact`, `SpareCard` and `NextOnCard` are decided for the seven row sizes
of `ppp_get_codes_per_row` one by one, since the divisor must be a number for the
solver. `SpareCard` is the reason why `max_card` is decremented in the code.

**CardNumbersProofs**, for words of every width from 8 bits on. The theorems about
the operations say what each returns and exactly when it reports an overflow:
`AddValue` and `SubValue` (carry and borrow between the words), `DivValue`, `MulValue`,
and the lemmas on shifts (`LshiftValue`, `RshiftValue`), comparison and `num_and` with
a mask (`AndMask`, bit by bit). Each loop has an invariant of its turns. `DivInv`: after i turns the first i
bits of the dividend are `q * d + remainder`, q is in the last i bits of `result`, the
bits that are left are above it; the remainder stays below the divisor, and when it
has its first bit set the difference modulo 2^W is the right one. `MulInv`: `reply` is
the product with the last i bits of the factor and `r` the other factor shifted by i,
unless they do not fit, and then `reply.overflow` and `can` say so. From these and
`CardInv` come `WordsAgree` (`CardWords`) and `DigitsFaithful` (`CardDigits`). Digits
are followed by what is left in front of them, `x \div Power(b, j)`: `GetInv` for the
digits that `_num_get_str` writes (it never needs more than `DEC_DIGITS`, so its buffer
is large enough), `HexReadBack` and `DecRead` for the values that `_num_set_str` goes
through; `DecReadBack` adds the refusal of what does not fit. `SamePasscode` says which
cipher texts share a passcode: those that agree modulo `ALPHABET^code_length`, no
others.

Where a loop has to be followed (the lines of a configuration, the lines of others
in a file) the recursive function is shown to be the one its definition describes
(`ParsingLoop`, `KeptLoop`; in CardNumbersProofs `LoopDefined` for all loops of Num,
`PowersDefined` for powers), and the induction is the lemma `SetInduction`
(`TurnInduction` for the turns of a loop) about a
set of numbers, from the well-foundedness of `<`; the library's induction theorem
takes an operator, which the provers cannot instantiate.

Only model-checked: what must eventually happen (`LockAttemptEnds`, `SessionEnds`,
`StoreReturns`, `CallReturns`, `AgentEnds`), since fairness is out of the prover's
reach.

## Not modelled

AES and SHA-256 (`src/crypto`, third-party code): a cipher text is arbitrary or an
injective function of key and counter. The MySQL and LDAP databases: stubs under
`#if 0`. Message texts, card layout, logging (`print.c`), translations and
the self tests of the agent (`testcases.c`): output, or tests of what is modelled
here.

Left out of the modelled parts: the text format of an entry, permission bits of
the state file, groups and the environment of the agent, failures of `_db_path`
after the lock was taken, and descriptor number 0. In AgentRequest a counter is
unsalted (Passcard has the salt), and requests no utility sends are not sent.
Hazards without a property are listed in `PROJECT.json` with the reason.

## Plan

1. The text format of an entry (`_db_generate_user_entry`,
   `_db_parse_user_entry`) as a conversion with its round trip.
2. Descriptor numbers, for a process that is started with stdin closed, and a
   failure of `_db_path` between lock and unlock.
