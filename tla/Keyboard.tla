------------------------------ MODULE Keyboard ------------------------------
(***************************************************************************)
(* The keyboard driver: Keyboard.c, kKeyboardHandler of                    *)
(* InterruptHandler.c and the reader kGetCh of Console.c, with the         *)
(* keyboard and its controller as they answer the driver.                  *)
(*                                                                         *)
(* A lock key makes the handler change the LEDs, and while it waits for    *)
(* the keyboard's acknowledgement it converts every other byte it reads,   *)
(* which may be a lock key again: the exchanges nest, and the inner one    *)
(* reads the acknowledgements of the outer one.  stack is the C stack of   *)
(* these calls.  The console takes keys at any time: the interrupt may be  *)
(* routed to another core, and the spinlock makes each put and get atomic. *)
(***************************************************************************)
EXTENDS Queue, FiniteSets

CONSTANTS
    Keystrokes,  \* the byte sequences a keystroke can send
    BufferSize,  \* how many bytes the keyboard keeps, 16 in a PS/2 keyboard
    MaxKeys,     \* bound: how many keystrokes the user makes
    MaxTries     \* how many bytes an acknowledgement is waited for, 100

ASSUME KeystrokesAssumption == Keystrokes \subseteq Seq(0 .. 255)
ASSUME BoundsAssumption == BufferSize \in Nat /\ MaxKeys \in Nat /\ MaxTries \in Nat \ {0}
\* A wait reads more bytes than the keyboard keeps.
ASSUME TriesAssumption == BufferSize < MaxTries

VARIABLES
    output,      \* external: the bytes on their way from the keyboard
    input,       \* external: the bytes on their way to it
    expectsLEDs, \* external: it has seen the LED command, not yet the value
    leds,        \* external: the byte of its LEDs
    typed,       \* how many keystrokes there were
    port,        \* the byte port 0x60 returned last
    gs_stKeyboardManager, gs_stKeyQueue,
    stack,       \* the conversions in progress, the innermost last
    got,         \* the key kGetKeyFromKeyQueue returned last
    refused,     \* history: how many keys found the queue full
    scans,       \* history: the bytes converted, in the order they were read
    newest,      \* history: the latest of them that was put in the queue
    activated    \* history: how many there were when the keyboard was activated

device == <<output, input, expectsLEDs, leds, typed>>
history == <<scans, newest, activated>>
queueVars == <<gs_stKeyQueue, got, refused>>
vars == <<device, port, gs_stKeyboardManager, queueVars, stack, history>>

ACK == 250
Resend == 254
ChangeLEDs == 237
Activate == 244
Pause == 225
Extended == 224
SkipCountForPause == 2
CapsLock == 58
NumLock == 69
ScrollLock == 70
Shifts == {42, 54}
TableSize == 89

\* The prefixes of the pause key and of an extended key, and the rest of their
\* bytes, which the keyboard sends with them.
Special == {Pause, Extended, ACK}
WholeKeys(bytes) == \A i \in 1 .. Len(bytes) :
    /\ bytes[i] = Pause =>
        i + 2 <= Len(bytes) /\ bytes[i + 1] \notin Special /\ bytes[i + 2] \notin Special
    /\ bytes[i] = Extended => i + 1 <= Len(bytes) /\ bytes[i + 1] \notin Special

ASSUME WholeKeysAssumption == \A k \in Keystrokes : WholeKeys(k)

Flag(b) == IF b THEN 1 ELSE 0

LEDByte(m) ==
    4 * Flag(m.bCapsLockOn) + 2 * Flag(m.bNumLockOn) + Flag(m.bScrollLockOn)

NoKey == [scan |-> 0, code |-> "normal", extended |-> FALSE, down |-> FALSE,
          no |-> 0]

\* Main has called kInitializeKeyboard, which has sent its command and waits.
Init ==
    /\ output = << >> /\ input = <<Activate>> /\ expectsLEDs = FALSE
    /\ leds = 0 /\ typed = 0 /\ port = 0
    /\ gs_stKeyboardManager =
        [bShiftDown |-> FALSE, bCapsLockOn |-> FALSE, bNumLockOn |-> FALSE,
         bScrollLockOn |-> FALSE, bExtendedCodeIn |-> FALSE,
         iSkipCountForPause |-> 0]
    /\ gs_stKeyQueue = EmptyQueue(NoKey)
    /\ got = NoKey /\ refused = 0
    /\ stack = <<[step |-> "activate", tries |-> 0, led |-> 0, key |-> NoKey]>>
    /\ scans = << >> /\ newest = 0 /\ activated = 0

-----------------------------------------------------------------------------
\* The keyboard.  It answers before it sends keys again, drops a keystroke that
\* its buffer has no room for, and wants a value it did not ask for sent again.

Keystroke(k) ==
    /\ typed < MaxKeys /\ input = << >> /\ Len(output) + Len(k) <= BufferSize
    /\ typed' = typed + 1
    /\ output' = output \o k
    /\ UNCHANGED <<input, expectsLEDs, leds, port, gs_stKeyboardManager,
                   queueVars, stack, history>>

KeyboardAnswers ==
    /\ input # << >>
    /\ LET byte == Head(input)
           command == byte \in {ChangeLEDs, Activate}
       IN  /\ output' = Append(output, IF command \/ expectsLEDs THEN ACK ELSE Resend)
           /\ expectsLEDs' = (byte = ChangeLEDs)
           /\ leds' = IF ~command /\ expectsLEDs THEN byte ELSE leds
    /\ input' = Tail(input)
    /\ UNCHANGED <<typed, port, gs_stKeyboardManager, queueVars, stack, history>>

-----------------------------------------------------------------------------
\* kConvertScanCodeToASCIICode, as what it does to the manager m and the key
\* it makes of a byte.

Code(byte) == byte % 128
Down(byte) == byte < 128

IsAlphabetScanCode(c) == c \in 16 .. 25 \cup 30 .. 38 \cup 44 .. 50
IsNumberOrSymbolScanCode(c) == c \in 2 .. 53 /\ ~IsAlphabetScanCode(c)
IsNumberPadScanCode(c) == c \in 71 .. 83

IsUseCombinedCode(m, c) ==
    \/ IsAlphabetScanCode(c) /\ m.bShiftDown # m.bCapsLockOn
    \/ IsNumberOrSymbolScanCode(c) /\ m.bShiftDown
    \/ IsNumberPadScanCode(c) /\ ~m.bExtendedCodeIn /\ m.bNumLockOn

\* Which column of the mapping table is read; the table has no row for the
\* codes from 89 on, and the driver reads on behind it.
Column(m, c) ==
    IF c >= TableSize THEN "outside"
    ELSE IF IsUseCombinedCode(m, c) THEN "combined" ELSE "normal"

MakesNoKey(m, byte) == m.iSkipCountForPause > 0 \/ byte = Extended

Key(m, byte) ==
    IF byte = Pause
    THEN [scan |-> byte, code |-> "normal", extended |-> FALSE, down |-> TRUE,
          no |-> Len(scans) + 1]
    ELSE [scan |-> byte, code |-> Column(m, Code(byte)),
          extended |-> m.bExtendedCodeIn, down |-> Down(byte),
          no |-> Len(scans) + 1]

IsLockPress(byte) == byte \in {CapsLock, NumLock, ScrollLock}

\* Faulty: letting a shift key go is taken for pressing it.
CombinationKeyStatusNoRelease(m, byte) ==
    [m EXCEPT
        !.bShiftDown = IF Code(byte) \in Shifts THEN TRUE ELSE @,
        !.bCapsLockOn = IF byte = CapsLock THEN ~@ ELSE @,
        !.bNumLockOn = IF byte = NumLock THEN ~@ ELSE @,
        !.bScrollLockOn = IF byte = ScrollLock THEN TRUE ELSE @]

\* UpdateCombinationKeyStatusAndLED but for the LEDs: scroll lock only goes on.
CombinationKeyStatus(m, byte) ==
    [m EXCEPT
        !.bShiftDown = IF Code(byte) \in Shifts THEN Down(byte) ELSE @,
        !.bCapsLockOn = IF byte = CapsLock THEN ~@ ELSE @,
        !.bNumLockOn = IF byte = NumLock THEN ~@ ELSE @,
        !.bScrollLockOn = IF byte = ScrollLock THEN TRUE ELSE @]

NextManager(m, byte) ==
    IF m.iSkipCountForPause > 0
    THEN [m EXCEPT !.iSkipCountForPause = @ - 1]
    ELSE IF byte = Pause
    THEN [m EXCEPT !.iSkipCountForPause = SkipCountForPause]
    ELSE IF byte = Extended
    THEN [m EXCEPT !.bExtendedCodeIn = TRUE]
    ELSE CombinationKeyStatus([m EXCEPT !.bExtendedCodeIn = FALSE], byte)

\* Convert a byte on top of the calls in rest: a lock key goes on to
\* kChangeKeyboardLED, any other key straight to the queue.
Convert(byte, rest) ==
    LET m == gs_stKeyboardManager
        n == NextManager(m, byte)
    IN  /\ scans' = Append(scans, byte)
        /\ gs_stKeyboardManager' = n
        /\ stack' = IF MakesNoKey(m, byte) THEN rest
                    ELSE Append(rest, [step |-> IF IsLockPress(byte) THEN "command" ELSE "put",
                                       tries |-> 0, led |-> LEDByte(n),
                                       key |-> Key(m, byte)])
        /\ UNCHANGED <<queueVars, newest, activated>>

-----------------------------------------------------------------------------
\* The innermost call and the calls below it.
Top == stack[Len(stack)]
Below == SubSeq(stack, 1, Len(stack) - 1)
Running(steps) == stack # << >> /\ Top.step \in steps
SetTop(frame) == Append(Below, frame)

\* kInPortByte(0x60), once kIsOutputBufferFull has said there is a byte.
ReadPort(byte) ==
    /\ output # << >>
    /\ byte = Head(output)
    /\ output' = Tail(output) /\ port' = byte
    /\ UNCHANGED <<input, expectsLEDs, leds, typed>>

\* kIsOutputBufferFull said no 65535 times, longer than the keyboard needs to
\* answer: the port still holds the byte read last.
ReadPortAgain(byte) ==
    /\ output = << >> /\ input = << >>
    /\ byte = port
    /\ UNCHANGED <<device, port>>

\* kKeyboardHandler, on the interrupt of a byte nobody has read.
KeyboardHandler == \E byte \in 0 .. 255 :
    /\ stack = << >>
    /\ ReadPort(byte)
    /\ Convert(byte, << >>)

SendByte(byte) ==
    /\ input' = Append(input, byte)
    /\ UNCHANGED <<output, expectsLEDs, leds, typed, port,
                   gs_stKeyboardManager, queueVars, history>>

\* kChangeKeyboardLED writes the command, and later the value it was called
\* with, which is no longer the manager's if a lock key came in between.
SendCommand ==
    /\ Running({"command"})
    /\ SendByte(ChangeLEDs)
    /\ stack' = SetTop([Top EXCEPT !.step = "commandACK"])

SendLEDs ==
    /\ Running({"value"})
    /\ SendByte(Top.led)
    /\ stack' = SetTop([Top EXCEPT !.step = "valueACK", !.tries = 0])

Waits == {"activate", "commandACK", "valueACK"}

\* The outermost call is Main's: interrupts are off and no task runs yet.
Booting == stack # << >> /\ stack[1].key = NoKey

\* What the caller of kWaitForACKAndPutOtherScanCode does next.  Main turns the
\* LEDs off once the keyboard is active, and stops if it does not get active.
AfterWait(acknowledged) ==
    /\ stack' =
        IF Top.step = "activate"
        THEN IF acknowledged
             THEN SetTop([Top EXCEPT !.step = "command", !.tries = 0])
             ELSE SetTop([Top EXCEPT !.step = "failed"])
        ELSE IF Top.step = "commandACK" /\ acknowledged
        THEN SetTop([Top EXCEPT !.step = "value"])
        ELSE IF Top.key = NoKey THEN Below
        ELSE SetTop([Top EXCEPT !.step = "put"])
    /\ activated' = IF Top.step = "activate" THEN Len(scans) ELSE activated

\* Faulty: a byte read while waiting is kept until the exchange is over.
WaitForACKDefers == \E byte \in 0 .. 255 :
    /\ Running(Waits) /\ Top.tries < MaxTries
    /\ ReadPort(byte) \/ ReadPortAgain(byte)
    /\ IF byte = ACK
       THEN /\ AfterWait(TRUE)
            /\ UNCHANGED <<gs_stKeyboardManager, queueVars, scans, newest>>
       ELSE LET m == gs_stKeyboardManager
                n == NextManager(m, byte)
                waiting == [Top EXCEPT !.tries = @ + 1]
            IN  /\ scans' = Append(scans, byte)
                /\ gs_stKeyboardManager' = n
                /\ stack' = IF MakesNoKey(m, byte) THEN SetTop(waiting)
                            ELSE Below \o <<[step |-> "put", tries |-> 0,
                                    led |-> LEDByte(n), key |-> Key(m, byte)],
                                    waiting>>
                /\ UNCHANGED <<queueVars, newest, activated>>

\* A turn of kWaitForACKAndPutOtherScanCode: any byte but an acknowledgement,
\* and the last one again if none comes, is converted.
WaitForACK == \E byte \in 0 .. 255 :
    /\ Running(Waits) /\ Top.tries < MaxTries
    /\ ReadPort(byte) \/ ReadPortAgain(byte)
    /\ IF byte = ACK
       THEN /\ AfterWait(TRUE)
            /\ UNCHANGED <<gs_stKeyboardManager, queueVars, scans, newest>>
       ELSE Convert(byte, SetTop([Top EXCEPT !.tries = @ + 1]))

\* Faulty: the driver waits until it is acknowledged.
NeverGiveUp == FALSE

\* Faulty: the first byte that is no acknowledgement ends the wait.
GiveUpAtOnce ==
    /\ Running(Waits) /\ Top.tries > 0
    /\ AfterWait(FALSE)
    /\ UNCHANGED <<device, port, gs_stKeyboardManager, queueVars, scans, newest>>

\* The hundred turns are over; of the callers only Main's looks at the FALSE
\* this returns.
GiveUp ==
    /\ Running(Waits) /\ Top.tries = MaxTries
    /\ AfterWait(FALSE)
    /\ UNCHANGED <<device, port, gs_stKeyboardManager, queueVars, scans, newest>>

\* kConvertScanCodeAndPutQueue puts its key, or drops it, and returns.
PutKey ==
    /\ Running({"put"})
    /\ IF IsQueueFull(gs_stKeyQueue)
       THEN refused' = refused + 1 /\ UNCHANGED gs_stKeyQueue
       ELSE gs_stKeyQueue' = PutQueue(gs_stKeyQueue, Top.key) /\ UNCHANGED refused
    /\ newest' = IF Top.key.no > newest THEN Top.key.no ELSE newest
    /\ stack' = Below
    /\ UNCHANGED <<device, port, gs_stKeyboardManager, got, scans, activated>>

\* kGetKeyFromKeyQueue, which kGetCh calls until there is a key.
GetKey ==
    /\ ~Booting /\ ~IsQueueEmpty(gs_stKeyQueue)
    /\ got' = FrontOfQueue(gs_stKeyQueue)
    /\ gs_stKeyQueue' = GetQueue(gs_stKeyQueue)
    /\ UNCHANGED <<device, port, gs_stKeyboardManager, refused, stack, history>>

Driver ==
    \/ KeyboardHandler \/ SendCommand \/ SendLEDs \/ WaitForACK \/ GiveUp
    \/ PutKey

Next ==
    \/ \E k \in Keystrokes : Keystroke(k)
    \/ KeyboardAnswers \/ Driver \/ GetKey

Spec == Init /\ [][Next]_vars

\* The keyboard answers, the handler runs on with interrupts off, and between
\* handlers the task in kGetCh gets its turns.
Fairness ==
    /\ WF_vars(KeyboardAnswers) /\ WF_vars(Driver)
    /\ WF_vars(stack = << >> /\ GetKey)

FairSpec == Spec /\ Fairness

-----------------------------------------------------------------------------
\* Properties

Managers ==
    [bShiftDown : BOOLEAN, bCapsLockOn : BOOLEAN, bNumLockOn : BOOLEAN,
     bScrollLockOn : BOOLEAN, bExtendedCodeIn : BOOLEAN,
     iSkipCountForPause : 0 .. SkipCountForPause]

Keys == [scan : Nat, code : {"normal", "combined", "outside"},
         extended : BOOLEAN, down : BOOLEAN, no : Nat]

Frames == [step : Waits \cup {"command", "value", "put", "failed"},
           tries : 0 .. MaxTries, led : 0 .. 7, key : Keys]

\* Every variable has its type: the driver's structures, the calls in progress
\* and the bytes on the wire.
TypeOK ==
    /\ output \in Seq(0 .. 255) /\ input \in Seq(0 .. 255)
    /\ expectsLEDs \in BOOLEAN /\ leds \in 0 .. 255
    /\ typed \in Nat /\ port \in 0 .. 255
    /\ gs_stKeyboardManager \in Managers
    /\ gs_stKeyQueue \in QueueType(Keys)
    /\ got \in Keys /\ refused \in Nat
    /\ stack \in Seq(Frames)
    /\ scans \in Seq(0 .. 255) /\ newest \in Nat /\ activated \in Nat

Fifo == INSTANCE Fifo WITH
    Capacity <- iMaxDataCount, NoItem <- NoKey,
    items <- QueueItems(gs_stKeyQueue)

\* Put from the handler and read by the console, the ring buffer is a FIFO of
\* its full capacity: no key is overwritten, read twice, or refused while
\* there is room.
ImplementsFifo == Fifo!Spec

\* However the exchanges nest, a key is queued after a later one only if it is
\* a lock key, which waits for its LEDs first.
OnlyLockKeysLate == [][
    PutKey => Top.key.no > newest \/ IsLockPress(Top.key.scan)]_vars

\* Byte n is one of the two that follow the first byte of the pause key.
PartOfPause(n) == \E k \in {1, 2} : n > k /\ scans[n - k] = Pause

\* How often the keys with these bytes were pressed before byte n.
Presses(bytes, n) ==
    Cardinality({k \in 1 .. n - 1 : scans[k] \in bytes /\ ~PartOfPause(k)})

\* The shift key that was last pressed or let go before byte n was pressed.
ShiftHeld(n) == \E k \in 1 .. n - 1 :
    /\ scans[k] \in Shifts /\ ~PartOfPause(k)
    /\ \A j \in k + 1 .. n - 1 : Code(scans[j]) \notin Shifts \/ PartOfPause(j)

\* What a key means is what the bytes before it say.
MeansWhatWasTyped(key) == LET n == key.no IN
    /\ scans[n] = key.scan /\ ~PartOfPause(n)
    /\ key.extended = (n > 1 /\ scans[n - 1] = Extended)
    /\ key.code = "combined" <=>
        LET c == Code(scans[n]) IN
        \/ IsAlphabetScanCode(c) /\ ShiftHeld(n) # (Presses({CapsLock}, n) % 2 = 1)
        \/ IsNumberOrSymbolScanCode(c) /\ ShiftHeld(n)
        \/ IsNumberPadScanCode(c) /\ ~key.extended /\ Presses({NumLock}, n) % 2 = 1

\* A key in the queue carries the meaning the bytes before it give it, also
\* when it was read, or a lock key changed, in the middle of an LED exchange:
\* no part of the pause key counts as the num lock it resembles.
KeysMeanWhatWasTyped == \A i \in 1 .. QueueCount(gs_stKeyQueue) :
    MeansWhatWasTyped(QueueItems(gs_stKeyQueue)[i])

Quiet == stack = << >> /\ output = << >> /\ input = << >>

\* When everything has been said, the keyboard shows the lock states the
\* driver uses, though nested exchanges read each other's acknowledgements and
\* the outer one sends an outdated value.  Main turns the LEDs off behind the
\* back of a lock key that was pressed before the keyboard was active.
LEDsShowLocks ==
    Quiet /\ Presses({CapsLock, NumLock, ScrollLock}, activated + 1) = 0 =>
        leds = LEDByte(gs_stKeyboardManager) /\ ~expectsLEDs

\* The driver always comes out of its exchanges, with the queue read empty:
\* nested waits do not wait for each other's acknowledgements for ever.  Only
\* if the keyboard was not activated in time does Main stop the system.
ComesToRest == ~Quiet \/ ~IsQueueEmpty(gs_stKeyQueue) ~>
    \/ Quiet /\ IsQueueEmpty(gs_stKeyQueue)
    \/ Running({"failed"})
=============================================================================
