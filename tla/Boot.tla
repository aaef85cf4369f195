-------------------------------- MODULE Boot --------------------------------
(***************************************************************************)
(* From the BIOS to kernel_init: boot.asm reads the loader, loader.asm has *)
(* the BIOS report the memory and reads the kernel, start.asm calls the C  *)
(* functions that still need what the loader left, and kernel_init builds  *)
(* its tables over it (main.c:41-47).  PhysMem and Paging are composed     *)
(* here: the loader fills the report that ards_init reads, and paging_init *)
(* is a step of both.                                                      *)
(*                                                                         *)
(* What lies where is kept as spans of bytes, at the addresses of the      *)
(* code; writing one destroys what it touches.                             *)
(***************************************************************************)
EXTENDS PhysMem, Paging

CONSTANTS
  LOADER_SECTORS,  \* sectors read to 0x1000 (4)
  LOADER_LENGTH,   \* bytes of loader.asm, which its report follows
  KERNEL_SECTORS   \* sectors read to 0x10000 (200)

ASSUME BootAssumption ==
  /\ KERNEL_MEMORY = TABLES * ENTRIES
  /\ TABLES <= 2                     \* a third would lie on the bitmap
  /\ LOADER_SECTORS \in 1 .. 54      \* the next would lie on the boot sector
  /\ KERNEL_SECTORS \in 1 .. 255     \* the count is one byte
  /\ LOADER_LENGTH \in 1 .. 512 * LOADER_SECTORS

(* The report ends below the kernel; a PC has a dozen regions.             *)
ASSUME ReportAssumption ==
  \A m \in MemoryMaps : LOADER_LENGTH + 20 * Len(m) <= 61440

VARIABLES
  at,              \* the part of the boot, or the function, that runs
  bios,            \* external: the regions the BIOS knows
  carry,           \* external: it ends its list by an error
  drive,           \* external: "idle", "busy", "ready" or "failed"
  left,            \* sectors still to be read
  memory,          \* what lies where: records of a name and a span
  gdtr             \* where the descriptor table is that the CPU uses

disk == <<drive, left>>
boot == <<at, bios, carry, disk, memory, gdtr>>
bootvars == <<physvars, pagevars, boot>>

Span(what, from, length) == [what |-> what, from |-> from, to |-> from + length]

BOOT_SECTOR == Span("boot sector", 31744, 512)                    \* 0x7c00
LOADER      == Span("loader", 4096, LOADER_LENGTH)                \* 0x1000
KERNEL      == Span("kernel", 65536, 512 * KERNEL_SECTORS)        \* 0x10000
REPORT(n)   == Span("report", 4096 + LOADER_LENGTH, 20 * n)
TABLE_AREA  == Span("tables", 4096, 4096 * (1 + TABLES))          \* KERNEL_PAGE_DIR
BITMAP      == Span("bitmap", 16384, 224)                         \* KERNEL_BITMAP_ADDR
MAP_ARRAY(n) == Span("map array", 1048576, 4096 * n)              \* MEMORY_BASE_ADDR

Apart(a, b) == a.to <= b.from \/ b.to <= a.from
Writes(spans) == memory' = {a \in memory : \A b \in spans : Apart(a, b)} \cup spans
Intact(what) == \E a \in memory : a.what = what

BootInit ==
  /\ Statics /\ regions = <<>> /\ PageInit
  /\ at = "boot" /\ bios \in MemoryMaps /\ carry \in BOOLEAN
  /\ drive = "idle" /\ left = 0
  /\ memory = {BOOT_SECTOR} /\ gdtr = "bios"

(***************************************************************************)
(* read_disk, in boot.asm and again in loader.asm: a command, then for     *)
(* each sector a loop until the drive is not busy and has data.  An error  *)
(* is never asked for: with BSY and DRQ clear the loop goes on for ever.   *)
(***************************************************************************)
Command(sectors) == drive' = "busy" /\ left' = sectors

DriveAnswers ==
  /\ drive = "busy" /\ drive' \in {"ready", "failed"}
  /\ UNCHANGED <<physvars, pagevars, at, bios, carry, left, memory, gdtr>>

ReadSector(reading, area, then) ==
  /\ at = reading /\ drive = "ready"
  /\ left' = left - 1
  /\ IF left = 1 THEN drive' = "idle" /\ at' = then /\ Writes({area})
     ELSE drive' = "busy" /\ UNCHANGED <<at, memory>>
  /\ UNCHANGED <<physvars, pagevars, bios, carry, gdtr>>

(***************************************************************************)
(* boot.asm                                                                *)
(***************************************************************************)
ReadLoader ==
  /\ at = "boot" /\ at' = "reading loader" /\ Command(LOADER_SECTORS)
  /\ UNCHANGED <<physvars, pagevars, bios, carry, memory, gdtr>>

(* The loader begins with 0xaa55, if the disk holds one.                   *)
CheckMagic ==
  /\ at = "check" /\ at' \in {"e820", "boot error"}
  /\ UNCHANGED <<physvars, pagevars, bios, carry, disk, memory, gdtr>>

(***************************************************************************)
(* loader.asm                                                              *)
(***************************************************************************)
(* Mutant: the end of the list is looked for before the record is counted. *)
E820LastLost ==
  /\ at = "e820" /\ Len(regions) < Len(bios)
  /\ IF Len(regions) + 1 = Len(bios) /\ ~carry
     THEN at' = "protect" /\ UNCHANGED <<regions, memory>>
     ELSE /\ regions' = Append(regions, bios[Len(regions) + 1])
          /\ Writes({REPORT(Len(regions'))}) /\ UNCHANGED at
  /\ UNCHANGED <<phase, next, region, free_pages, memory_map_pages_used, start_page,
                 memory_map_array, handed, pagevars, bios, carry, disk, gdtr>>

(* One record more; the last comes with ebx = 0, unless the BIOS ends its  *)
(* list by an error of the next call.                                      *)
E820Record ==
  /\ at = "e820" /\ Len(regions) < Len(bios)
  /\ regions' = Append(regions, bios[Len(regions) + 1])
  /\ Writes({REPORT(Len(regions'))})
  /\ at' = IF regions' = bios /\ ~carry THEN "protect" ELSE at
  /\ UNCHANGED <<phase, next, region, free_pages, memory_map_pages_used, start_page,
                 memory_map_array, handed, pagevars, bios, carry, disk, gdtr>>

(* jc .error, which hangs.                                                 *)
E820Carry ==
  /\ at = "e820" /\ Len(regions) = Len(bios)
  /\ at' = "e820 error"
  /\ UNCHANGED <<physvars, pagevars, bios, carry, disk, memory, gdtr>>

(* lgdt, and after the jump to 32 bits the second read_disk.               *)
EnterProtected ==
  /\ at = "protect" /\ at' = "reading kernel"
  /\ gdtr' = "loader" /\ Command(KERNEL_SECTORS)
  /\ UNCHANGED <<physvars, pagevars, bios, carry, memory>>

(***************************************************************************)
(* start.asm and kernel_init                                               *)
(***************************************************************************)
(* Mutant: gdt_init where kernel_init had it before. *)
ThenLateGdt ==
  [console_init |-> "ards_init", ards_init |-> "memory_map_init",
   memory_map_init |-> "paging_init", paging_init |-> "gdt_init",
   gdt_init |-> "interrupt_init"]

Then ==
  [console_init |-> "gdt_init", gdt_init |-> "ards_init", ards_init |-> "memory_map_init",
   memory_map_init |-> "paging_init", paging_init |-> "interrupt_init"]

Called(f) == at = f /\ at' = Then[f]

(* It writes the text memory, where nothing else lies.                     *)
ConsoleInit ==
  /\ Called("console_init")
  /\ UNCHANGED <<physvars, pagevars, bios, carry, disk, memory, gdtr>>

(* The table is copied to where the kernel keeps it.                       *)
GdtInit ==
  /\ Called("gdt_init")
  /\ gdtr' = IF Intact(gdtr) THEN "kernel" ELSE "nowhere"
  /\ UNCHANGED <<physvars, pagevars, bios, carry, disk, memory>>

ArdsInit ==
  /\ at = "ards_init"
  /\ ArdsRecord \/ ArdsEnd
  /\ at' = IF phase' = "map" THEN Then.ards_init ELSE at
  /\ UNCHANGED <<pagevars, bios, carry, disk, memory, gdtr>>

MapInit ==
  /\ Called("memory_map_init") /\ MemoryMapInit
  /\ Writes({MAP_ARRAY(memory_map_pages_used'), BITMAP})
  /\ UNCHANGED <<pagevars, bios, carry, disk, gdtr>>

PagingInit ==
  /\ Called("paging_init") /\ CountMapped /\ BuildTables
  /\ Writes({TABLE_AREA})
  /\ UNCHANGED <<bios, carry, disk, gdtr>>

(* What follows is for Interrupts and Scheduler.  Then page frames are     *)
(* handed out, or paging_test runs (bound: one of them; they share no      *)
(* state).                                                                 *)
KernelRuns ==
  /\ at = "interrupt_init" /\ at' \in {"frames", "tables"}
  /\ UNCHANGED <<physvars, pagevars, bios, carry, disk, memory, gdtr>>

HandOut ==
  /\ at = "frames"
  /\ GetPage \/ \E p \in AllPages : PutPage(p)
  /\ UNCHANGED <<pagevars, boot>>

EditTables == at = "tables" /\ PageUse /\ UNCHANGED <<physvars, boot>>

BootNext ==
  \/ DriveAnswers \/ ReadLoader \/ ReadSector("reading loader", LOADER, "check")
  \/ CheckMagic \/ E820Record \/ E820Carry
  \/ EnterProtected \/ ReadSector("reading kernel", KERNEL, "console_init")
  \/ ConsoleInit \/ GdtInit \/ ArdsInit \/ MapInit \/ PagingInit
  \/ KernelRuns \/ HandOut \/ EditTables

BootSpec == BootInit /\ [][BootNext]_bootvars

-----------------------------------------------------------------------------
Reads  == {"boot", "reading loader", "check"}
Loads  == {"e820", "protect", "reading kernel"}
Kernel == DOMAIN Then \cup {"interrupt_init", "frames", "tables"}

(* Low memory is used over and over during the boot, and nothing is        *)
(* written over what is still needed: the code that runs, the descriptor   *)
(* table in use, the report until it is read, the kernel's own tables.     *)
NothingUsedIsLost ==
  /\ at \in Reads => Intact("boot sector")
  /\ at \in Loads => Intact("loader")
  /\ at \in Kernel => Intact("kernel")
  /\ gdtr # "bios" => Intact(gdtr)
  /\ phase = "ards" /\ regions # <<>> => Intact("report")
  /\ phase \in {"paging", "run"} => Intact("map array") /\ Intact("bitmap")
  /\ paging => Intact("tables")

(* What ards_init and its successors do, they do on the memory the BIOS    *)
(* reported: every record reaches them, in order, the last one too.        *)
Reported == INSTANCE PhysMem WITH regions <- bios

SetsUpReported == Reported!PhysSpec

(* The tables and the counts of references agree, whatever is mapped or    *)
(* handed out later: a frame that the kernel's tables map is counted and   *)
(* belongs to nobody else.                                                 *)
FramesCounted ==
  /\ PoolsDisjoint
  /\ paging => \A t \in KernelTables, e \in Index :
       mem[t][e] # NONE => memory_map_array[mem[t][e]] >= 1 /\ mem[t][e] \notin handed

(* "the BIOS indicate that the last valid descriptor has been returned by  *)
(* either returning a zero as the continuation value, or by returning      *)
(* carry" (docs/008-detect-memory.md): an error is one of the first call.  *)
ErrorMeansNoReport == at = "e820 error" => bios = <<>>
=============================================================================
