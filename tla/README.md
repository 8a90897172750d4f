# A TLA+ model of the IHome firmware (STM32F407)

The repository is the firmware of a home controller on an STM32F407 board:
drivers for a bluetooth module, RS485, CAN, an infrared remote, sensors, SPI
flash, Ethernet (lwIP) and a display, a memory manager, a font library kept in
flash, and an application (`src/USER/main.c`) that is a super-loop in one
version (inside `#if 0`) and two uC/OS-III tasks in the other. The vendor
libraries (`FWLIB`, `LWIP/lwip-1.4.1`, FatFs, uC/OS-III, `CORE`) are not ours to
verify; where our code calls them they are modelled by their effect. The Keil
project file builds only some of the drivers at this commit; the model is of
the sources, each as its own callers in the repository use it.

## 1. Inventory

| Component | State it keeps | Operations | Interacts with | What makes it correct |
|---|---|---|---|---|
| USART3 receiver (`usart3.c`, TIM7 in `timer.c`) | `USART3_RX_BUF`, `USART3_RX_STA` (bit 15: complete, 14..0: length), TIM7's counter and enable bit | `USART3_IRQHandler` (preemption priority 2), `TIM7_IRQHandler` (0), `usart3_init`, `u3_printf` | everything that polls `USART3_RX_STA`: `bluetooth.c`, `hc05.c` | a complete frame is not empty, is frozen until cleared, is one unbroken burst; every frame is completed |
| HC05 driver (`hc05.c`) | `HC05_KEY`; locals `retry`, `temp` | `HC05_Init`, `HC05_Get_Role`, `HC05_Set_Cmd`, `HC05_CFG_CMD` | sends by `u3_printf`, polls the receiver | the return value tells what happened; the answer belongs to the command; bounded attempts; KEY is low afterwards |
| Bluetooth interpreter (`bluetooth.c`) | locals only | `bluetooth_deal` | the receiver; SPI flash, RS485, SRAM test, LCD | works on the frame it saw |
| Memory manager (`malloc.c`) | per bank: pool, table `memmap`, `memrdy` | `mymalloc`, `myfree`, `myrealloc`, `my_mem_init`, `my_mem_perused` | pictures, file functions, fonts, lwIP glue | regions are disjoint, the table is what was handed out, contents survive, NULL only when nothing fits |
| SPI flash (`w25qxx.c`) | the chip; `W25QXX_BUFFER` | read, write page, write with erase, erase | fonts, bluetooth, FatFs disk 1 | a write changes its range and nothing else |
| Font update (`fontupd.c`) | `ftinfo` in RAM and in flash, the fonts in flash | `update_font`, `updata_fontx`, `font_init` | SPI flash, FatFs, memory manager | fonts marked good are complete, after a power failure too |
| Internal flash, EEPROM (`stmflash.c`, `24cxx.c`) | the chip | read, write | main loop | as the SPI flash |
| TCP client (`tcp_client_demo.c`) | `tcp_client_flag` (bits 5, 6, 7), send and receive buffers, the `es` of a connection | `tcp_client_test` and six lwIP callbacks | lwIP, LCD, LED | bit 5 tells whether the server is connected; no command is acted on twice; the client gets logged in, whatever fails on the way |
| lwIP glue (`lwip_comm.c`, `lan8720.c`, `ethernetif.c`) | `lwipdev`, `lwip_localtime`, the timers' last times | init, periodic handler, DHCP handler | TIM3, ETH interrupt | timers fire; a pcb that is gone is not used |
| RS485 (`rs485.c`) | `RS485_RX_BUF`, `RS485_RX_CNT`, the direction pin | USART2 interrupt, send, polled receive | bluetooth, main loop | a frame is returned whole, and once |
| USART1 console and USMART (`usart.c`, `usmart*.c`) | `USART_RX_BUF`, `USART_RX_STA` | USART1 interrupt, `usmart_scan` in TIM4's interrupt | every function in the USMART table | the command that runs is the line that was sent; every line is run |
| Infrared remote (`remote.c`) | `RmtSta`, `RmtRec`, `RmtCnt`, `Dval` | TIM1 capture and overflow interrupts, `Remote_Scan` | main loop | the key reported is the one pressed; a press is not lost; a release is noticed |
| DHT11 (`dht11.c`) | none | read, init | `task_dht11_task` | a bad checksum is not a reading |
| Tasks (`main.c`, `delay.c`) | LCD colours, stacks | `start_task`, `task_dht11_task`, `task2_task` | LCD, printf | no shared device is used by two tasks at once |
| Display, touch, pictures, graphics | frame buffer, touch state | drawing | FatFs, memory manager | - |
| CAN, ADC, DAC, RTC, RNG, keys, LEDs, watchdogs, timers | peripheral registers | init, read, write | main loop | - |
| WiFi module (`ATK-RM04`) | - | demo menus | nothing calls them | - |

What is hard in this code:

* **Preemption.** Interrupt handlers of different priorities and the main loop
  share flags and counters without locks and without `volatile`
  (`USART3_RX_STA`, `RmtSta`, `RS485_RX_CNT`).
* **Timeouts that define messages.** A frame is what comes between two
  silences; a late byte, a late reply and a full buffer all race the timer.
* **Retries** that cannot tell a late answer from the right one, with counters
  tested at the wrong boundary.
* **Failure half-way.** Flash updates under power loss; allocation and file
  errors in the middle of an update.
* **Callbacks** of lwIP that use a connection that another path has aborted.
* **One priority for three handlers.** A console command runs inside an
  interrupt and blocks both serial receivers.

PROJECT.json lists each of these at its line, under `hazards`.

## 2. Modules

```
FrameMailbox          what the receiver promises (abstract)
  ^ refinement (TLC and TLAPS)
Usart3Link            both interrupt handlers, TIM7, the line, the reader
Usart3Link_proofs     theorems about it

HC05Driver            the AT command driver, over an instance of FrameMailbox
MCHC05Driver          the number of attempts for TLC
HC05Driver_proofs     theorems about it

Heap                  what the memory manager promises (abstract)
  ^ refinement (TLC and TLAPS)
Malloc                table, search, free, realloc, clients
Malloc_proofs         theorems about it

Remote                the infrared receiver, its two interrupts and the scan
MCRemote              two keys for TLC
Remote_proofs         theorems about it

TcpClient             the TCP client, its lwIP callbacks, the server
TcpClient_proofs      theorems about it

Rs485                 the RS485 port
Usart1                the console and usmart_scan
  ^ both extended by
SerialPorts           the two under one interrupt priority
SerialPorts_proofs    theorems about it

W25QXX                the SPI flash driver and the chip
  ^ extended by
FontUpdate            the font library kept in that flash
MCFontUpdate          the files of two cards for TLC
FontUpdate_proofs     theorems about driver and fonts

DivMod                lemmas on division by a constant, for the two above
```

### Usart3Link

`done` and `len` are bit 15 and bits 14..0 of `USART3_RX_STA`; `buf` is
`USART3_RX_BUF`; `en`, `cnt`, `uif` are TIM7's enable bit, counter and update
flag. A byte is a pair (burst, position), so a lost, repeated or misplaced byte
can be told from the right one.

`USART3_IRQHandler` is cut at every access to state it shares with TIM7:
`Receive` (data register), `CheckDone` (l.46), `CheckRoom` (l.48), `ResetTimer`
(l.50), `ArmTimer` (l.51-52), `ReadIndex` and `StoreByte` (l.53), `MarkFull`
(l.54-57). `TIM7_IRQHandler` has preemption priority 0 and is one step that goes
first whenever `uif` is set; the other handler has priority 2 and can be
interrupted before every step. `USART3_RX_STA++` with bit 15 already set indexes
outside the buffer: this is the history variable `stray`.

The reader is `bluetooth_deal`: it sees bit 15, copies as many bytes as a `u8`
counts, deals with them for any length of time, and writes 0. It only runs when
no interrupt does (`ThreadLevel`), but interrupts come between its steps.

Time is counted in ticks. A tick is long enough for an interrupt entry and a
whole handler (microseconds) and shorter than a byte (about 1 ms at 9600 baud),
so at most one tick passes between a byte's arrival and the end of its handler.
`ARR` is 100 ticks of TIM7 (10 ms, l.115; the comment at l.29-30 still says
100 ms). A sender is described by `MaxIntra`, `MinInter` and `MaxBurst`: gaps
inside a burst, gaps between bursts, bytes in a burst.

### HC05Driver

The four functions have one shape: KEY high, send, KEY low, poll for a frame,
test it, try again. One state machine with `op` for the function stands for
all of them: `Call`, `SendCommand`, `NoFrame`, `TakeFrame`, `TestReply`,
`Exhausted`, `Return`. The receiver is an instance of FrameMailbox (`Put`,
`Close`, `Take`), which Usart3Link implements. The HC05 is external: it may miss
a command, and sends the answer or a refusal for each one it got, in order, at
any later time. Each byte carries the number of the command it answers, so the
model can ask *whose* answer was accepted. `temp` is not initialised in
`HC05_Get_Role` and `HC05_Set_Cmd`: it starts as any value of `Garbage`.
`TakeFrame` clears the receiver and only `TestReply` reads the buffer, as in the
code, so a new frame may be written over the answer in between (`RxBuf`).

The receiver's full buffer is here too, as in usart3.c:54-57: a byte that finds
`MaxLen` bytes marks the frame complete and leaves TIM7 running (`tim7`), so
`EndOfFrame` may later declare an empty frame, or the rest of a long reply, to be
one. `call.zero` notes that such an empty frame was taken, or one of 256 bytes,
whose length is 0 in the `u8` `temp`; for both `HC05_Init` would report success.

`HC05_Set_Cmd` is documented to return 0 for success only (hc05.c:121-122). The
code does not: when all attempts fail, `retry` is 255, the test `retry==0` (l.150)
is false, and `temp`, never set, is returned as it is. `ZeroNeedsOkOrSilence` says
what is left: an "OK", or no frame at all.

### Malloc

One bank. The search of `my_mem_malloc` is one step per table entry; `myfree`
and the end of an allocation are one step each (the memory manager is called
from thread level by one caller at a time). `live` is a history variable: the
region handed out at each block. A block holds one value; `myrealloc` copies the
*new* size from the old region, so it reads past its end when it grows.
Callers free what they hold, NULL, a pointer of another pool, or a block that is
free (`update_font` frees `buf` twice).

`Heap` is the same without table and search: a call asks for blocks (`Ask`), and
is answered with a gap (`Alloc`, `Move`) or, when there is none, with NULL
(`Fail`); `Nothing` is the request of 0 bytes. While `Malloc` searches, `nmemb`
and `old` are what Heap was asked.

### W25QXX and FontUpdate

`W25QXX_Write` is one action per access to the chip: `CheckSector` reads the
sector into W25QXX_BUF and decides, `EraseForWrite` erases, `W25QXX_Write_Page`
programs one page; `SectorDone` goes on to the next sector. Erasing sets cells
to `FF`, programming over anything else gives `Mixed`, as the chip's AND would.
`ChipLosesPower` can happen before any action, and leaves any part of the page
that was being programmed. A sector erase is done or not done: what a half-erased
sector reads as is not defined by the chip, and no order of writes could guard
against an old `fontok` read back from it.

`FontUpdate` follows `update_font`: `Refuse` (no memory, a file missing: nothing
is touched), `BeginUpdate`, `EraseNext` per sector, and per font `OpenFont`,
`CopyBlock`, `BlockCopied`, then `SaveInfo` and `InfoSaved`; `FileFails` is a
file that cannot be opened or read, `NoTempbuf` the failed allocation that
`updata_fontx` does not report. A block is always written whole, so what
`tempbuf` held before (`Junk`, or `FF`) follows the end of a file, where the
next font begins. `font_init` runs after each start. `ftinfo` is two cells,
`fontok` and the rest.

Cells are counted from `FONTINFOADDR` (12 MB). The first `FONTSECSIZE` sectors
are the area (`Area`), behind them is what the user keeps, and as the chip takes
24 bits of an address, the cells behind the chip's end are those at its address
0, where FATFS is: all of them hold `Other`. `Ones` is the cell of the address
0XFFFFFFFF, the last one of the chip. `font_init` loads `ftinfo` whatever flash
holds (l.218): from erased flash it is `AllOnes`, every address `Ones` and every
size -1 (0XFFFFFFFF added in 32 bits). If the first font is then skipped for want
of memory, l.90 places the second at `Ones` - 1, and the copy goes over the end
of the chip and into FATFS: `TypeOK` therefore says only that a write stays on
the chip, and `OthersAreKept` that it stays in the area as long as no font was
skipped. Without that condition TLC finds the write over FATFS: a code bug with
the cause that run `font_memory` shows.

A page torn while `ftinfo` is programmed can leave `fontok` without the addresses,
and `font_init`, which looks at `fontok` only (l.219, 222), returns 0 for it,
documented as an intact library (l.209). `FontsMatchInfo` and
`UpdatedFontsAreUsable` speak of `fontok` with the addresses, or of an update that
returned, and exclude this.

### Remote

`RmtSta`'s fields are the record `leader` (bit 7), `complete` (bit 6), `rise`
(bit 4) and `ovf` (bits 3..0). `CaptureRise` and `CaptureFall` are the two
branches of `TIM1_CC_IRQHandler`, `Overflow` is `TIM1_UP_TIM10_IRQHandler`; they
have the same priority, so each is one step. The program is built without
optimisation (`IHome.uvproj`), so `Remote_Scan` loads `RmtRec` anew for each of
the four bytes: `ScanFirst` (address, key), `ScanIdInv`, `ScanKeyInv`, then
`ScanTest`, and `RmtSta &= ~(1<<6)` as `ScanLoad` and `ScanStore`. A level's
length is one of the five classes the handler tells apart; the remote sends a
leader, `4*W` bits and, while the key is held, repeat codes, and one length per
press may be measured wrong. `RmtRec` is a function from the places 1 (oldest
bit) to `4*W` to bits, `RmtRec<<=1` with the `|=` after it is `Shifted`, and
`RmtRec>>24` and the like are `ByteOf`. The timer overflows during the leader's mark (9 ms
on top of the 10 ms period) as well as on the idle line.

Any number of interrupts may come in one call of `Remote_Scan`. Its own few
microseconds leave room for two, but the main loop that calls it can be suspended
by a USMART command, which runs in `TIM4_IRQHandler` (priority 3) for as long as
it likes, while TIM1 (priority 1) goes on interrupting.

What the qualifiers of the properties mean. `ReportedKeyIsLast` leaves out: a
shift of `RmtRec` between two of the four reads (`moved`), which can pair the
byte of one alignment with the inverse of another; a bit that was not taken or
taken twice (`slipped`); a wrong bit in the code still arriving. In all three the
checks of address and key can pass for a key that was not pressed. The second
one needs no noise: a call that has loaded `RmtSta`, is suspended, and stores it
in the middle of a code clears bit 7, or brings it back, and only a part of that
code is taken (`splits` in `ScanStore`; without that line the run finds the
property violated).
`PressIsReported` leaves out a press that comes while the last one is still held
in `RmtSta` (about 150 ms, until its first repeat code) and a call that an
interrupt cut in two before its store (`cut`): that store may drop the press it
did not see, and `owed` ends with it. For such calls only `ReleaseIsNoticed`
says something.

### TcpClient

`tcp_client_flag` is the set `flag` of "send" (bit 7), "recv" (bit 6) and "conn"
(bit 5). `pc` says where `tcp_client_test` is; the assignments to the flags are
`Load` and `Store` with `Change` for what each one does. `tcb` is the pcb that
`*tcppcb` points to, `es` the state of the struct in its `callback_arg`, `heap`
what lwIP's heap has left for such structs.

| Step | Code |
|---|---|
| `Start` | l.41-56: a new pcb, `tcp_connect` |
| `Load`, `Store` | l.57, l.67, l.82, l.195, l.247 |
| `Spin`, `Compare` | l.59-66, the answer to the login |
| `Cmd`, `Act` | l.70-81, an LED command |
| `Test` | l.86-94 |
| `Poll`, `NotDue` | l.95: `lwip_periodic_handle`, `tcp_slowtmr`, `tcp_client_poll` |
| `End` | l.98: abort without a connection |
| `SynAck`, `Receive`, `Fin` | `tcp_client_connected`, `tcp_client_recv` in `ETH_IRQHandler` |
| `Reset` | an RST (tcp_in.c:586-602, 308-314) or the retransmission limit (tcp.c, `pcb_remove`): the pcb is freed, `tcp_client_error` does nothing |

The interrupt comes between any two steps; a call into lwIP is one step,
although `ETH_IRQHandler` can come inside one (lwIP is built with `NO_SYS` and
without protection): that would be a model of lwIP, not of this client. `main.c`
calls `tcp_client_test` in its old super-loop (l.736, commented out at this
commit).

At this commit the increment of `lwip_localtime` in `TIM3_IRQHandler` is commented
out too (timer.c:64), so `tcp_slowtmr` is never called, no poll is ever due, and
a client that is connected never sends its login. `ClockRuns` is FALSE for the
program as it is: run `tcp_client_clock` shows the connection that waits for ever
(`DataIsSent`). Run `tcp_client` has it TRUE, as `lwip_comm.c` and the client
assume, to ask what else could go wrong once the line is back. The safety
properties and their theorems hold for both.

`GetsIn` names five dead ends. The first is the clock that stands still: with it
`GetsIn` holds too, because every connection ends there. Into each of the other
four TLC finds a behaviour (take its line out of `Stuck` and the property is
violated):

1. lwIP frees the pcb (RST, retransmission limit); nobody clears bit 5, and the
   client never connects again.
2. The server closes before the login is answered. Each call sets bit 7 again,
   the poll sends as long as bit 7 is set and closes only otherwise.
3. A SYN-ACK between l.86 and l.98 gives a connection that l.98 aborts; the
   answer of a login sent in between stays in the buffer, and the next
   connection takes it for its own. If then `pbuf_alloc` fails, the server never
   hears of it.
4. l.98 aborts with `es` = 0, so the struct that the callbacks had is lost;
   after enough lost structs every attempt is aborted in
   `tcp_client_connected`.

An attempt also fails when the SYN-ACK does not come before the test of bit 5
(l.86): the client waits about 2 ms for it, and nothing guarantees that the server
is so near. `GetsIn` assumes nothing of it: the third way out is to try for ever
because from some moment on no SYN-ACK comes in time (`InTime`).

### Rs485, Usart1, SerialPorts

`rx` is `RS485_RX_BUF` up to `RS485_RX_CNT`; `RS485_Receive_Data` is `ReadCount`
(l.130), `Waited` (the 10 ms, the comparison, the copy: the handler only writes
behind what is copied), `TakeLen` (l.140), `ClearCount` (l.141);
`RS485_Send_Data` is `SendBegins`, `SendEnds` (l.118), `ReceiverOn` (l.119).
At 9600 baud a byte takes 1 ms, and `delay_ms(10)` waits for two ticks of the
kernel, at least 5 ms: in a frame, at least one byte comes. Other stations begin a
frame whenever the bus is silent. `ragged` notes that what is in `rx` is not
one frame from its first byte: a byte lost (full buffer, receiver off, data
register taken), a frame that began before the last one was cleared, a send.

`sta` and `buf` are `USART_RX_STA` and `USART_RX_BUF`; `Handle` is
`USART1_IRQHandler`; `ScanBegins` and `ScanEnds` are the start of a command in
`usmart_scan` and l.422. `SerialPorts` puts both ports together: USART1, USART2
and TIM4 have preemption priority 3, so while a command runs (`busy`) each port
keeps one byte in its data register and loses the next, and the program, which
is below all of them, stands still.

## 3. Runs

| Run | Shows | Bounds |
|---|---|---|
| `usart3_link` | a well-spaced sender: the handlers and the reader implement FrameMailbox; frames are unbroken; no burst is cut; every frame is handled | buffer 3, `ARR` 4, gaps at the very edge (`ARR`-2, `ARR`+2), 3 bursts of up to 3 bytes |
| `usart3_any_sender` | any gap, bursts that overflow: the length stays within the buffer; an open frame is timed, and closed | buffer 2, bursts of up to 4, gaps 1..4, `ARR` 3 |
| `usart3_race` | **violation**: a complete frame grows, and a byte is written outside the buffer (comment at usart3.c:46) | as above |
| `usart3_overflow` | **violation**: an empty frame is declared complete (usart3.c:31-34) | as above |
| `hc05` | the return values, the owner of the accepted answer, KEY, termination | 4 commands in all, 2 attempts per call, a buffer of 6 characters |
| `malloc` | all properties of the memory manager and its refinement of Heap | 4 blocks of 2 bytes, requests of 0..9 bytes |
| `font_update` | fonts marked good are whole and of one card, whenever the power fails; failed updates are not accepted; flash writes are exact, and nothing outside the area is touched while no font is skipped; updates end | sectors of 4 cells, pages of 2, an area of 7 sectors on a chip of 15, four fonts of 4 to 7 cells from two cards, two updates |
| `font_memory` | **violation**: `update_font` returns 0 with a font missing (fontupd.c:126) | same, one update |
| `remote` | the key reported is the last one received; an undisturbed press is reported; the receiver comes to rest | bytes of 2 bits, 14 overflows cut to 2, two presses with a repeat code each, one wrong length per press, any number of interrupts in a call |
| `tcp_client` | bit 5 is true; commands once and in order; with the clock of lwIP running the client gets in, is in one of the dead ends, or goes on trying | 3 structs in the heap, 3 commands, 3 faults |
| `tcp_client_clock` | **violation**: with the clock as it is at this commit nothing is ever sent (lwip_comm.c:165) | same |
| `serial_ports` | frames are returned whole; lines are run as sent; all that could be answered is | buffers of 2, frames of 2 and 3 bytes, lines of 1 and 3, two each |

Why the bounds are enough. *USART3:* three bursts let a frame be received while
the one before it is being handled and the one before that has been cleared; a
buffer of 2 or 3 is filled exactly, and overflowed by bursts of 4. The gap
counter stops at `MinInter`, where all longer gaps behave alike. The theorems
below lift the bounds. *HC05:* two attempts are the first that is not the last
and the last; four commands are two whole calls, so a reply can be late by an
attempt, by a call, or twice. A frame holds the answers of two commands, joined.
The buffer of 6 is overflowed by two answers to `HC05_Get_Role` (4 characters
each), which gives the frame cut short and the empty one after it; a frame of 256
bytes does not fit the run and is left to the theorem. *malloc:* four blocks give two regions with a hole
between, below and above them; a request of 9 bytes is one block more than the
pool. *Fonts:* file sizes are chosen so that fonts end inside a page, inside a
sector and at the end of a block (then `f_read` returns 0 bytes once), and the
second update may bring a card of other sizes over the first one's fonts. The
last block of the last font ends with the area, and the sectors around it are as
many as a misplaced font can reach.
*Remote:* bytes of 2 bits keep four bytes, each with its inverse, and codes that
differ in every byte that varies; two overflows are the first (end of a code),
one in between and the last. The second press falls before, at and after the
release. *TCP:* a fault each for a reset, a FIN and a failed allocation can meet
in one behaviour, and three structs are lost one by one. Calls are not bounded.
*Serial:* a frame or line that fits and one that does not; the second one meets
every state the first one left. Polls, sends and commands are not bounded.

Deadlock is not checked where a system may rightly stop (the sender stops; no
more commands are sent): the USART3 and HC05 runs. The other runs check it.

Fairness. *USART3:* time passes (`Tick`), a pending interrupt is taken and runs
to its end (the NVIC), and the main loop comes back to its poll. Nothing makes
the sender send. *HC05:* every wait of the driver ends (`delay_ms`), bytes on
the line arrive, and silence closes the frame (run `usart3_any_sender`); the
HC05 need never answer. *malloc:* no liveness property, so no fairness: the
search is a bounded loop, and what could go wrong in it, a gap missed or a run
outside the table, is a matter of `ImplementsHeap`. *Remote:* the main loop scans, time passes on the idle line, a code that
has begun is sent to its end; nobody has to press. *TCP:* the main loop goes on
and, if the clock runs, polls come due again and again; the server's answer to a
login does not fall between a load and a store of the flags every time (strong
fairness: each attempt is a new chance). Nothing makes the SYN-ACK come.
*Serial:* a frame or line that has begun goes on, interrupts are served, a
command returns, the program asks for a frame again and again. *Fonts:* the update runs on; nobody has to begin one,
and no failure has to happen.

Every property has a mutant: a definition of the model changed the way a slip
in the code would change it (names with an underscore, such as
`CheckRoom_OffByOne`), for which the run finds the property violated.

### What the violations mean

* `usart3_race`: TIM7 must overflow in the few instructions between the test of
  bit 15 and `USART3_RX_STA++`, so a byte has to come as the 10 ms end. With a
  sender that keeps away from this by two ticks it cannot happen: that is what
  `PacedInvariance` proves.
* `usart3_overflow`: needs more than 400 bytes in one burst, and a reader that
  clears the frame within 10 ms.
* `tcp_client_clock`: needs nothing at all; the server has only to accept.
* `font_memory`: `update_font` frees its `FIL` and its 4096 bytes before
  `updata_fontx` asks for the same again, so it takes a fragmented pool in which
  the new `FIL` is placed in the only hole of 4096 bytes.

## 4. Proofs

`Usart3Link_proofs`, for every buffer size, every reload value above 1 and
every sender in the class stated:

* *Any sender.* `AnyInv` = `TypeOK` and three facts: there is room in the buffer
  at the steps that come after the test (`RoomLeft`; the length can only have
  changed by TIM7 setting bit 15, which does not change it), the counter has
  just been reset where the handler says so (`JustReset`), and an open frame has
  its timer running, or the handler is about to start it (`Timed`). From it:
  `TypeCorrect`, `OpenFramesTimed`.
* *A well-spaced sender* (`WellSpaced`: gaps inside a burst at least two ticks
  shorter than `ARR`, gaps between bursts at least two longer, bursts that fit
  the buffer and a `u8`). `FrameIsOneRun` and the refinement are not inductive:
  they need to know that TIM7 cannot overflow while the handler runs. `PacedInv`
  ties the parts together: the counter equals the silence so far while the timer
  runs, within a tick (`TimerInv`), what the handler tested still holds when it
  acts on it (`HandlerInv`), the open frame is a run that ends with the last byte
  of the current burst (`BurstInv`), and the reader's copy is the frame (`ReaderInv`). From it:
  `NoBurstIsCut`, `FramesAreRuns`, and `Refinement`: initial states map to
  initial states, `StoreByte` to `Put`, `TIM7_IRQHandler` to `Close`,
  `Release` to `Take`, every other step to a stutter.

`Malloc_proofs`, for every table size up to 65535 entries and every block size:
the invariant says that the table is the regions (`Consistent`), that nothing
is handed out before the pool is initialised (`Unused`), and that the entries just above `offset`
which the search has counted are free, and that no run of the wanted length lies
higher (`Searched`), without which neither "the run found is free" nor "NULL
only when nothing fits" is inductive. From it: `TypeCorrect`,
`TableIsWhatClientsHold`, `NoOverlap`, `UsageCorrect`, `ReallocCopies`,
`OthersUntouched`, and `Refinement` of Heap: the start of a call is `Ask` or
`Nothing`, a step of the search a stutter, its end `Alloc`, `Move` or `Fail`.

`HC05Driver_proofs`, for any numbers of attempts, any buffer and whatever the
HC05 answers: `TypeCorrect`, `GivesUp`, `AcceptedReported`, `OwnAnswer`,
`KeyLow`, `ZeroMeansOkOrSilence`. The return value alone tells nothing of the
attempts made, so `CallInv` counts them: attempts and `retry` together are what
the function started with, and 255 is what the last `retry--` leaves. `KeyInv`
says when KEY is high. `OwnerInv` follows the numbers of the commands through
the HC05's inbox, the line, the receiver and the copy in `taken`: after a clean
start none of them is older than the call. `TempInv` says that `temp` is not 0
before an answer is accepted, unless a frame of 0 or 256 bytes was taken; so
`ZeroMeansOkOrSilence` holds for every size of the buffer, the 400 of the code
included, and names these frames as its exception (`call.zero`).

`SerialPorts_proofs`, for every buffer size and every length of frame and line:
`TypeCorrect`, `WholeFrames`, `CommandsAsSent`. The two ports share no variable
but the one priority, so each has its own invariant, kept by what a step of the
whole does to that port (`BusNext`, `ConsoleNext`). RS485: what has been received
is the beginning of the frame on the bus (`Aligned`), and when the reader has
found two equal lengths the frame is over (`FrameInv`). Console: what the ring
buffer keeps of the first `k` bytes of a line is `TailOf`, the bytes since the
last wrap, as long as the line found the receiver at rest.

`FontUpdate_proofs`, for every size of sector, page and area, any cards and up
to four fonts, and a failure or loss of power at every step: `TypeCorrect`,
`WriteExact`, `OthersKept`, `FailedNotUsable`, `FontsMatch`, `UpdatedUsable`. The
driver comes first. `WriteInv` says which cells may still differ from `want` at each stage of
`W25QXX_Write` (those still to be written, in this sector and the later ones),
and that the cells about to be programmed are erased; `Fresh` is a write that
erases nothing because it finds all its cells erased, as every write of an
update does. Above it, `NotOkInv` keeps the first cell from being "ok" from the
first erased sector to `SaveInfo`; `ErasedInv` and `CopyInv` say what the chip
holds between: the fonts copied so far, whole, one behind the other, and behind
them nothing; `SaveInv` that the two cells of `ftinfo` arrive last; `UpdatedInv` carries it over to the idle time and to the next power-up.
`OutsideInv` keeps every write that is under way inside the area, and with it what
others keep outside, as long as no font was skipped; for a skipped font, `Base`
says from where the addresses behind it are counted, which is all that `TypeOK`
needs: the write stays on the chip.
All theorems have the hypothesis `FontsFit`: there are addresses `top[f]` that no
font begins behind, and the last block of each font, which is written whole, ends
in the area. No code checks this, `FONTSECSIZE` was chosen for the font files
that come with the board, and they satisfy it: `ftinfo` and the files take
3238700 of the area's 3239936 bytes (fontupd.c:22), and the last block of GBK24
(23940 characters of 72 bytes) adds 736 of the 1236 that are left; the blocks of
the other fonts end inside the ones behind them. TLC evaluates it for the run's
files (`MCFontsFit`), where the last block ends exactly with the area. There are
at most four fonts because `updata_fontx`'s failures are reported as the number of
the font, and 5 is what `update_font` returns when it has no memory.

`Remote_proofs`, for bytes of any length, any keys, presses and repeat codes, and
any number of interrupts in a call: `TypeCorrect` and `KeyIsLast`. Remote_Scan may
run while a code is shifted in, and `RmtRec` is then the end of the last code
followed by the beginning of the new one. `RecInv` says so bit by bit: the newest
bits are the new code's (`NewInv`, with the one wrong bit, if there was one),
the others the old one's (`PushInv`), and between codes all are the old one's
(`StillInv`), unless a bit slipped (`ShortInv`). `WindowFails` is the heart of it:
for no number of bits of the new code, and not even with a wrong bit in the old
one, do such bits pass the checks of address and key, by cases of where the new
code begins; `OldKey` does the same for a whole code with a wrong bit. `ScanInv`
carries the results of the first reads to the last one. `RmtSta &= ~(1<<6)` needs
no invariant: a store that changes bit 7 in the middle of a code counts as a bit
that slipped, and anywhere else it leaves `RecInv` as it is.

`TcpClient_proofs` proves, for every `Heap`, `MaxMsgs` and `MaxFaults`,
`TypeCorrect` (`TypeOK`), `ConnectedFlagCorrect` (`ConnectedFlagIsTrue`) and
`CommandsActedOnOnce` (`CommandActedOnOnce`). The properties speak of
`tcp_client_flag` alone and are not inductive: the value that the main loop has
loaded and not yet stored, `reg`, can bring back any bit. So the invariant has
three parts, each kept by a lemma of its own with a step per action. `TypeInv`
adds to the types that a registered pcb has its struct, that struct and free
blocks fit the heap, and that `reg` is loaded only at an assignment. `ConnInv`
says of bit 5, in the flags and in the copy, that the pcb had its callbacks,
and that after an abort the interrupt has no pcb until the next attempt.
`CommandInv` says of bit 6, in the flags and in the copy, that the command in
the buffer is newer than the last one acted on. `GetsIn` is a liveness property
and is only model-checked.

Assumptions used: the named assumptions on the constants (`LinkAssumption`,
`DriverAssumption`, `MallocAssumption`, `FlashAssumption`, `FontAssumption`,
`AreaAssumption`, `RemoteAssumption`, `TcpAssumption`, `Rs485Assumption`, `Usart1Assumption`), which
TLC evaluates in the runs, and two hypotheses of the theorems that need them:
`WellSpaced` and `FontsFit`. `DivMod` has what the
proofs need of `\div` and `%` by a number that is not a literal: quotient and
remainder are unique, and how they change by one step.

Every safety invariant and action property that a passing run checks is stated
by a theorem, and so are both refinements. Only model-checked are the liveness properties
(`FrameIsHandled`, `OpenFrameIsClosed`, `CallsReturn`,
`UpdateEnds`, `PressIsReported`, `ReleaseIsNoticed`, `GetsIn`, `AllAreAnswered`),
which need fairness and ENABLED, out of the prover's reach; and the violations,
whose counterexamples TLC prints.

## 5. Limits

* `bluetooth_deal` copies into a local of 100 bytes; the overflow for longer
  frames is not modelled, nor is which command a text names.
* `USART3_RX_BUF[USART3_RX_STA++]` is read as: index, then store and write back,
  with no re-read between; the compiler may also order the two stores the
  other way, which no reader can see because readers run below both handlers.
* Replies in HC05Driver are two to four characters instead of 4 to 13.
* FontUpdate: the addresses and sizes in `ftinfo` are one cell, so a page torn in
  the middle of an address is not modelled, only one torn between `fontok` and
  the rest.
* TcpClient: pbufs (`es->p`, `tcp_client_sent`), what a second `tcp_abort` of one
  pcb does to lwIP's pool, callbacks that abort without returning `ERR_ABRT`
  (against tcp.c:407-409), a compare of the buffer that an interrupt rewrites.
* Serial ports: the text of a command and what it calls; a command returns.
* The allocator is not reentrant; the model has one call at a time, as the code
  assumes.

## 6. Not modelled

* Vendor code (`FWLIB`, `CORE`, uC/OS-III, FatFs with its code pages, lwIP with
  SNMP and its example pages, `fsdata.c`) is nearly all of the repository's
  lines: the code of this project is about 20000 lines of 238000, and of those
  most are pixel output, register programming, demo menus and tables. So
  the share of lines the model stands for stays small, whatever is modelled.
* Drivers with no state between calls (CAN, ADC, DAC, RTC, RNG, keys, LEDs, PWM,
  watchdogs, DHT11): a call sets or reads registers; nothing interleaves. The
  DHT11's checksum (dht11.c:118) compares a sum of four bytes with one byte and
  reports success when they differ; this is read off the line.
* `stmflash.c`, `24cxx.c`: as the SPI flash, without the read-back of a sector.
* The TCP server, UDP and web server demos, `ATK-RM04`: nothing calls them.
* The two tasks of `main.c` share the LCD and `printf`; what they disturb is on
  the screen.
* FatFs on the SPI flash (diskio.c:138) as a second writer beside the font
  update: the power loss between erasing and rewriting a sector destroys file
  data, which needs a model of what the files hold.

## 7. Plan

Done: the receiver, the AT driver, the memory manager, the flash driver with the
font update, the remote control, the TCP client, the serial ports. The
components whose state several actors change, or a failure can leave half
changed, have their modules (section 6 names the rest); what is left is to
prove.

Theorems to come:

* W25QXX: an abstract flash whose write is one step, as the font update thinks
  of it, and `W25QXX_Write` as its refinement while the power stays on; what
  `WriteInv` says is the step towards it.
* The safety half of the liveness properties: that a state in which nothing but
  time can pass is one in which nothing is owed (HC05Driver, SerialPorts), and
  that each step of a search or an update brings down a bound (Malloc,
  FontUpdate).
* Usart3Link: what is left of the guarantees for a sender that is not well
  spaced, as a weaker mailbox.
